---- MODULE Spec2Model ----
(***************************************************************************)
(* A model of the zmk-layout fluent API: the LayerManager over a          *)
(* LayoutData (core/managers/layer_manager.py), the LayerProxy handles it  *)
(* gives out, and the immutable ValidationPipeline                         *)
(* (validation/pipeline.py).                                               *)
(*                                                                         *)
(* Python strings are modelled as sequences of one-character strings so    *)
(* that startswith, split and membership are computed, not assumed.        *)
(***************************************************************************)
EXTENDS Integers, Sequences, FiniteSets, TLC

VARIABLES
    layer_names,   \* LayoutData.layer_names: list[str]
    layers,        \* LayoutData.layers: list[list[LayoutBinding]]
    combos,        \* the combos of the layout's data
    has_combos,    \* hasattr(layout, "combos")
    hold_taps,     \* LayoutData.hold_taps: the references the user's definitions match
    proxy,         \* the LayerProxy the caller holds: <<>> or <<name>>
    pipes,         \* the ValidationPipeline objects alive: seq of ValidationState
    tap_dances,    \* LayoutData.tap_dances
    macros,        \* LayoutData.macros
    custom_defined_behaviors,   \* LayoutData.custom_defined_behaviors: str
    custom_devicetree,          \* LayoutData.custom_devicetree: str
    profile,       \* the keyboard profile a KeymapBuilder was made with
    builder,       \* the KeymapBuilder's fields
    now,           \* the system clock, in ticks
    global_skip_variable_resolution,   \* the global _skip_variable_resolution of json_operations
    contexts,      \* the VariableResolutionContext objects entered, innermost first
    wire,          \* the JSON text last serialized, with the LayoutData it came from
    keyboard,      \* LayoutData.keyboard
    config_parameters,   \* LayoutData.config_parameters: the ConfigParameter objects
    config_builder,      \* the ConfigBuilder's fields
    cells,         \* the cell-list of a bindings property the parser was given
    layer_objects, \* the identity of each list in LayoutData.layers, where it is tracked
    last           \* the last call made: its name, arguments and outcome

\* what a KeymapBuilder reads beside the layers and the collections above
emit_vars ==
    <<tap_dances, macros, custom_defined_behaviors, custom_devicetree, profile, builder, now>>

\* the state of utils/json_operations.py and of its caller
json_vars == <<global_skip_variable_resolution, contexts, wire>>

\* what Layout.validate, the ConfigBuilder and the keymap parser read
more_vars == <<keyboard, config_parameters, config_builder, cells, layer_objects>>

vars ==
    <<layer_names, layers, combos, has_combos, hold_taps, proxy, pipes, emit_vars, json_vars,
      more_vars, last>>

----------------------------------------------------------------------------
(* Bounds of the model *)

\* add / copy / add_multiple are not explored beyond this many layers
MaxLayers == 3
\* at most this many ValidationPipeline objects are created in one behaviour
MaxPipes == 3

----------------------------------------------------------------------------
(* Strings *)

S_base == <<"b", "a", "s", "e">>
S_func == <<"f", "u", "n", "c">>
S_nav  == <<"n", "a", "v">>

\* str.startswith(prefix)
StartsWith(s, prefix) ==
    /\ Len(s) >= Len(prefix)
    /\ SubSeq(s, 1, Len(prefix)) = prefix

\* x in list
In(x, list) == \E i \in 1..Len(list) : list[i] = x

\* "_" in s
HasUnderscore(s) == \E i \in 1..Len(s) : s[i] = "_"

\* s.split("_")[0]: everything before the first underscore
SplitUnderscoreHead(s) ==
    IF HasUnderscore(s)
    THEN LET k == CHOOSE i \in 1..Len(s) :
                      /\ s[i] = "_"
                      /\ \A j \in 1..(i - 1) : s[j] # "_"
         IN  SubSeq(s, 1, k - 1)
    ELSE s

----------------------------------------------------------------------------
(* Python list primitives, 0-based *)

\* list.index(x) that finds every name in the first place
Index_ignoring_name(list, x) == 0

\* list.index(x): position of the first occurrence
Index(list, x) ==
    (CHOOSE i \in 1..Len(list) :
        /\ list[i] = x
        /\ \A j \in 1..(i - 1) : list[j] # x) - 1

\* list.pop(i) leaves this list
Pop(list, i) == SubSeq(list, 1, i) \o SubSeq(list, i + 2, Len(list))

\* list.insert(i, x): Python clamps an index outside the list
Insert(list, i, x) ==
    LET n == Len(list)
        k == IF i < 0 THEN (IF n + i < 0 THEN 0 ELSE n + i)
             ELSE IF i > n THEN n ELSE i
    IN  SubSeq(list, 1, k) \o <<x>> \o SubSeq(list, k + 1, n)

\* list[i] = x
SetAt(list, i, x) == [list EXCEPT ![i + 1] = x]

----------------------------------------------------------------------------
(* Outcomes of a call *)

OK            == "ok"
NotFound      == "ValueError: not found"
AlreadyExists == "ValueError: already exists"
OutOfRange    == "IndexError: out of range"
Raised(r)     == r # OK

\* an optional argument: <<>> is None, <<v>> is the value v
None == << >>
Some(v) == <<v>>

Data(names, lys) == [layer_names |-> names, layers |-> lys]
Ret(data, result) == [data |-> data, result |-> result]

----------------------------------------------------------------------------
(* LayerManager (core/managers/layer_manager.py).  Each method is an       *)
(* operator from the LayoutData before the call to the LayoutData after it *)
(* and the outcome: OK, or the exception raised.                           *)

\* LayerManager.get: the proxy is (data, name); nothing of the layer is copied
get(data, name) ==
    IF ~In(name, data.layer_names)
    THEN Ret(data, NotFound)
    ELSE Ret(data, OK)

\* add that checks the position only after the name is already inserted
add_late_range_check(data, name, position) ==
    IF In(name, data.layer_names)
    THEN Ret(data, AlreadyExists)
    ELSE IF position = None
    THEN Ret(Data(Append(data.layer_names, name), Append(data.layers, << >>)), OK)
    ELSE LET p == position[1]
             named == Data(Insert(data.layer_names, p, name), data.layers)
         IN  IF p < 0 \/ p > Len(data.layer_names)
             THEN Ret(named, OutOfRange)
             ELSE Ret(Data(named.layer_names, Insert(data.layers, p, << >>)), OK)

\* add without the test for an existing name
add_no_exists_check(data, name, position) ==
    IF position = None
    THEN Ret(Data(Append(data.layer_names, name), Append(data.layers, << >>)), OK)
    ELSE LET p == position[1]
         IN  IF p < 0 \/ p > Len(data.layer_names)
             THEN Ret(data, OutOfRange)
             ELSE Ret(Data(Insert(data.layer_names, p, name),
                           Insert(data.layers, p, << >>)), OK)

\* LayerManager.add
add(data, name, position) ==
    IF In(name, data.layer_names)
    THEN Ret(data, AlreadyExists)
    ELSE IF position = None
    THEN LET new == Data(Append(data.layer_names, name), Append(data.layers, << >>))
         IN  get(new, name)
    ELSE LET p == position[1]
         IN  IF p < 0 \/ p > Len(data.layer_names)
             THEN Ret(data, OutOfRange)
             ELSE LET new == Data(Insert(data.layer_names, p, name),
                                  Insert(data.layers, p, << >>))
                  IN  get(new, name)

\* remove that pops the bindings but leaves the name in layer_names
remove_keeps_name(data, name) ==
    IF ~In(name, data.layer_names)
    THEN Ret(data, NotFound)
    ELSE LET index == Index(data.layer_names, name)
         IN  Ret(Data(data.layer_names, Pop(data.layers, index)), OK)

\* remove that empties the layer in place and pops nothing
remove_only_clears(data, name) ==
    IF ~In(name, data.layer_names)
    THEN Ret(data, NotFound)
    ELSE LET index == Index(data.layer_names, name)
         IN  Ret(Data(data.layer_names, SetAt(data.layers, index, << >>)), OK)

\* remove that ignores a missing name instead of raising
remove_ignores_missing(data, name) ==
    IF ~In(name, data.layer_names)
    THEN Ret(data, OK)
    ELSE LET index == Index(data.layer_names, name)
         IN  Ret(Data(Pop(data.layer_names, index), Pop(data.layers, index)), OK)

\* LayerManager.remove
remove(data, name) ==
    IF ~In(name, data.layer_names)
    THEN Ret(data, NotFound)
    ELSE LET index == Index(data.layer_names, name)
         IN  Ret(Data(Pop(data.layer_names, index), Pop(data.layers, index)), OK)

\* move that exchanges the layer with the one at the position
move_swapping(data, name, position) ==
    IF ~In(name, data.layer_names)
    THEN Ret(data, NotFound)
    ELSE IF position < 0 \/ position >= Len(data.layer_names)
    THEN Ret(data, OutOfRange)
    ELSE LET current_index == Index(data.layer_names, name)
         IN  Ret(Data(SetAt(SetAt(data.layer_names, current_index,
                                  data.layer_names[position + 1]),
                            position, name),
                      SetAt(SetAt(data.layers, current_index, data.layers[position + 1]),
                            position, data.layers[current_index + 1])), OK)

\* move that moves the name and leaves the bindings where they are
move_names_only(data, name, position) ==
    IF ~In(name, data.layer_names)
    THEN Ret(data, NotFound)
    ELSE IF position < 0 \/ position >= Len(data.layer_names)
    THEN Ret(data, OutOfRange)
    ELSE LET current_index == Index(data.layer_names, name)
             layer_name == data.layer_names[current_index + 1]
         IN  Ret(Data(Insert(Pop(data.layer_names, current_index), position, layer_name),
                      data.layers), OK)

\* LayerManager.move
move(data, name, position) ==
    IF ~In(name, data.layer_names)
    THEN Ret(data, NotFound)
    ELSE IF position < 0 \/ position >= Len(data.layer_names)
    THEN Ret(data, OutOfRange)
    ELSE LET current_index == Index(data.layer_names, name)
             layer_name == data.layer_names[current_index + 1]
             layer_data == data.layers[current_index + 1]
         IN  Ret(Data(Insert(Pop(data.layer_names, current_index), position, layer_name),
                      Insert(Pop(data.layers, current_index), position, layer_data)), OK)

\* rename without the test for an existing new name
rename_no_exists_check(data, old_name, new_name) ==
    IF ~In(old_name, data.layer_names)
    THEN Ret(data, NotFound)
    ELSE LET index == Index(data.layer_names, old_name)
         IN  Ret(Data(SetAt(data.layer_names, index, new_name), data.layers), OK)

\* LayerManager.rename
rename(data, old_name, new_name) ==
    IF ~In(old_name, data.layer_names)
    THEN Ret(data, NotFound)
    ELSE IF In(new_name, data.layer_names)
    THEN Ret(data, AlreadyExists)
    ELSE LET index == Index(data.layer_names, old_name)
         IN  Ret(Data(SetAt(data.layer_names, index, new_name), data.layers), OK)

\* LayoutBinding.model_validate(binding.model_dump()): an equal, new binding
CopyBinding(binding) == [value |-> binding.value, params |-> binding.params]

\* LayerManager.copy
copy(data, source_name, target_name) ==
    IF ~In(source_name, data.layer_names)
    THEN Ret(data, NotFound)
    ELSE IF In(target_name, data.layer_names)
    THEN Ret(data, AlreadyExists)
    ELSE LET source_index == Index(data.layer_names, source_name)
             source_layer == data.layers[source_index + 1]
             copied_layer == [i \in 1..Len(source_layer) |-> CopyBinding(source_layer[i])]
             new == Data(Append(data.layer_names, target_name),
                         Append(data.layers, copied_layer))
         IN  get(new, target_name)

\* LayerManager.clear
clear(data, name) ==
    IF ~In(name, data.layer_names)
    THEN Ret(data, NotFound)
    ELSE LET index == Index(data.layer_names, name)
             new == Data(data.layer_names, SetAt(data.layers, index, << >>))
         IN  get(new, name)

\* LayerManager.names: a copy of layer_names
names(data) == data.layer_names

\* LayerManager.count
count(data) == Len(data.layer_names)

----------------------------------------------------------------------------
(* Bulk operations and the proxy, as the specification describes them:    *)
(* all-or-nothing bulk calls built on add / remove, and a proxy that       *)
(* resolves its layer by name on every access.                             *)

RECURSIVE add_each(_, _)
add_each(data, list) ==
    IF list = << >>
    THEN Ret(data, OK)
    ELSE LET r == add(data, Head(list), None)
         IN  IF Raised(r.result) THEN r ELSE add_each(r.data, Tail(list))

\* LayerManager.add_multiple: every add succeeds, or nothing is kept
add_multiple(data, list) ==
    LET r == add_each(data, list)
    IN  IF Raised(r.result) THEN Ret(data, r.result) ELSE r

RECURSIVE remove_each(_, _)
remove_each(data, list) ==
    IF list = << >>
    THEN Ret(data, OK)
    ELSE LET r == remove(data, Head(list))
         IN  IF Raised(r.result) THEN r ELSE remove_each(r.data, Tail(list))

\* LayerManager.remove_multiple: every remove succeeds, or nothing is kept
remove_multiple(data, list) ==
    LET r == remove_each(data, list)
    IN  IF Raised(r.result) THEN Ret(data, r.result) ELSE r

\* LayerProxy.bindings: the layer is looked up by name at the time of the access
proxy_bindings(data, name) ==
    IF ~In(name, data.layer_names)
    THEN Ret(data, NotFound)
    ELSE Ret(data, OK)

----------------------------------------------------------------------------
(* Bindings and the layouts a behaviour starts from *)

\* LayoutParam: value is an int or a str
PInt(n) == [tag |-> "int", i |-> n, s |-> << >>]
PStr(t) == [tag |-> "str", i |-> 0, s |-> t]

\* LayoutBinding that forgets its parameters
Binding_without_params(value, params) == [value |-> value, params |-> << >>]

\* LayoutBinding
Binding(value, params) == [value |-> value, params |-> params]

V_kp    == <<"&", "k", "p">>
V_mo    == <<"&", "m", "o">>
V_lt    == <<"&", "l", "t">>
V_to    == <<"&", "t", "o">>
V_tog   == <<"&", "t", "o", "g">>
V_sl    == <<"&", "s", "l">>
V_trans == <<"&", "t", "r", "a", "n", "s">>

B_kp_A  == Binding(V_kp, <<PStr(<<"A">>)>>)
B_kp_B  == Binding(V_kp, <<PStr(<<"B">>)>>)
B_trans == Binding(V_trans, << >>)
B_mo_1  == Binding(V_mo, <<PInt(1)>>)

\* Layout.create_empty
EmptyLayout == Data(<< >>, << >>)

\* a two-layer layout, as the basic_layout fixture of the tests
BasicLayout == Data(<<S_base, S_func>>, << <<B_kp_A, B_kp_B>>, <<B_trans, B_mo_1>> >>)

ManagedLayouts == {EmptyLayout, BasicLayout}

\* the layer names callers pass
Names == {S_base, S_func, S_nav}

\* the positions callers pass
Positions == (-1)..MaxLayers

\* the name lists callers pass to the bulk calls: up to two names
NameLists == {<< >>} \cup {<<a>> : a \in Names} \cup {<<a, b>> : a \in Names, b \in Names}

----------------------------------------------------------------------------
(* The calls a program makes on one Layout *)

Call(op, name, other, pos, list, result) ==
    [op |-> op, name |-> name, other |-> other, pos |-> pos, list |-> list,
     result |-> result]

NoCall == Call("none", << >>, << >>, None, << >>, OK)

Current == Data(layer_names, layers)

\* the LayoutData becomes r.data, whether the call returned or raised
Becomes(r) ==
    /\ layer_names' = r.data.layer_names
    /\ layers' = r.data.layers

\* growth is explored up to MaxLayers layers
Bounded(r) == Len(r.data.layer_names) <= MaxLayers

AddLayer(name, position) ==
    LET r == add(Current, name, position)
    IN  /\ Bounded(r)
        /\ Becomes(r)
        /\ last' = Call("add", name, << >>, position, << >>, r.result)
        /\ UNCHANGED <<combos, has_combos, hold_taps, proxy, pipes, emit_vars, json_vars,
                   more_vars>>

GetLayer(name) ==
    LET r == get(Current, name)
    IN  /\ Becomes(r)
        /\ last' = Call("get", name, << >>, None, << >>, r.result)
        /\ UNCHANGED <<combos, has_combos, hold_taps, proxy, pipes, emit_vars, json_vars,
                   more_vars>>

\* get, with the caller keeping the LayerProxy it returns
HoldProxy(name) ==
    LET r == get(Current, name)
    IN  /\ Becomes(r)
        /\ proxy' = IF Raised(r.result) THEN proxy ELSE Some(name)
        /\ last' = Call("get", name, << >>, None, << >>, r.result)
        /\ UNCHANGED <<combos, has_combos, hold_taps, pipes, emit_vars, json_vars,
                   more_vars>>

RemoveLayer(name) ==
    LET r == remove(Current, name)
    IN  /\ Becomes(r)
        /\ last' = Call("remove", name, << >>, None, << >>, r.result)
        /\ UNCHANGED <<combos, has_combos, hold_taps, proxy, pipes, emit_vars, json_vars,
                   more_vars>>

MoveLayer(name, position) ==
    LET r == move(Current, name, position)
    IN  /\ Becomes(r)
        /\ last' = Call("move", name, << >>, Some(position), << >>, r.result)
        /\ UNCHANGED <<combos, has_combos, hold_taps, proxy, pipes, emit_vars, json_vars,
                   more_vars>>

RenameLayer(old_name, new_name) ==
    LET r == rename(Current, old_name, new_name)
    IN  /\ Becomes(r)
        /\ last' = Call("rename", old_name, new_name, None, << >>, r.result)
        /\ UNCHANGED <<combos, has_combos, hold_taps, proxy, pipes, emit_vars, json_vars,
                   more_vars>>

CopyLayer(source_name, target_name) ==
    LET r == copy(Current, source_name, target_name)
    IN  /\ Bounded(r)
        /\ Becomes(r)
        /\ last' = Call("copy", source_name, target_name, None, << >>, r.result)
        /\ UNCHANGED <<combos, has_combos, hold_taps, proxy, pipes, emit_vars, json_vars,
                   more_vars>>

ClearLayer(name) ==
    LET r == clear(Current, name)
    IN  /\ Becomes(r)
        /\ last' = Call("clear", name, << >>, None, << >>, r.result)
        /\ UNCHANGED <<combos, has_combos, hold_taps, proxy, pipes, emit_vars, json_vars,
                   more_vars>>

AddMultiple(list) ==
    LET r == add_multiple(Current, list)
    IN  /\ Bounded(r)
        /\ Becomes(r)
        /\ last' = Call("add_multiple", << >>, << >>, None, list, r.result)
        /\ UNCHANGED <<combos, has_combos, hold_taps, proxy, pipes, emit_vars, json_vars,
                   more_vars>>

RemoveMultiple(list) ==
    LET r == remove_multiple(Current, list)
    IN  /\ Becomes(r)
        /\ last' = Call("remove_multiple", << >>, << >>, None, list, r.result)
        /\ UNCHANGED <<combos, has_combos, hold_taps, proxy, pipes, emit_vars, json_vars,
                   more_vars>>

\* an access through the proxy the caller still holds
ProxyAccess ==
    /\ proxy # None
    /\ LET r == proxy_bindings(Current, proxy[1])
       IN  /\ Becomes(r)
           /\ last' = Call("proxy_access", proxy[1], << >>, None, << >>, r.result)
    /\ UNCHANGED <<combos, has_combos, hold_taps, proxy, pipes, emit_vars, json_vars,
                   more_vars>>

\* no KeymapBuilder has been made
NoBuilder ==
    /\ tap_dances = << >>
    /\ macros = << >>
    /\ custom_defined_behaviors = << >>
    /\ custom_devicetree = << >>
    /\ profile = None
    /\ builder = None
    /\ now = 0

\* utils/json_operations.py as imported, nothing serialized yet
NoJson ==
    /\ global_skip_variable_resolution = FALSE
    /\ contexts = << >>
    /\ wire = None

\* a layout of the keyboard "kb" without config parameters; no ConfigBuilder made,
\* nothing given to the parser
NoMore ==
    /\ keyboard = <<"kb">>
    /\ config_parameters = << >>
    /\ config_builder = None
    /\ cells = << >>
    /\ layer_objects = << >>

Init ==
    /\ \E d \in ManagedLayouts :
          /\ layer_names = d.layer_names
          /\ layers = d.layers
    /\ combos = << >>
    /\ has_combos = FALSE
    /\ hold_taps = {}
    /\ proxy = None
    /\ pipes = << >>
    /\ NoBuilder
    /\ NoJson
    /\ NoMore
    /\ last = NoCall

\* the single-layer calls of the LayerManager
Next ==
    \/ \E name \in Names, position \in {None} \cup {Some(p) : p \in Positions} :
          AddLayer(name, position)
    \/ \E name \in Names : GetLayer(name)
    \/ \E name \in Names : RemoveLayer(name)
    \/ \E name \in Names, position \in Positions : MoveLayer(name, position)
    \/ \E old_name \in Names, new_name \in Names : RenameLayer(old_name, new_name)
    \/ \E source_name \in Names, target_name \in Names : CopyLayer(source_name, target_name)
    \/ \E name \in Names : ClearLayer(name)

Spec == Init /\ [][Next]_vars

\* the bulk calls, and a proxy held across removals
NextBulk ==
    \/ \E list \in NameLists : AddMultiple(list)
    \/ \E list \in NameLists : RemoveMultiple(list)
    \/ \E name \in Names : RemoveLayer(name)
    \/ \E name \in Names : HoldProxy(name)
    \/ ProxyAccess

SpecBulk == Init /\ [][NextBulk]_vars

----------------------------------------------------------------------------
(* Claims about the LayerManager *)

\* C1: after any sequence of LayerManager calls, returning or raising, on a
\* LayoutData with len(layers) == len(layer_names), the two lengths are equal.
C1_LengthsAgree == Len(layers) = Len(layer_names)

\* a layer was removed from a two-layer layout and one name, one layer are left
C1_Witness ==
    /\ last.op = "remove"
    /\ last.result = OK
    /\ Len(layer_names) = 1
    /\ Len(layers) = 1

\* C2: after any sequence of LayerManager calls on a LayoutData with pairwise
\* distinct layer names, layer_names holds no name twice.
C2_NamesUnique ==
    \A i \in 1..Len(layer_names), j \in 1..Len(layer_names) :
        layer_names[i] = layer_names[j] => i = j

\* a rename to a name in use was refused, on a layout of two layers
C2_Witness ==
    /\ last.op = "rename"
    /\ last.result = AlreadyExists
    /\ last.name # last.other
    /\ Len(layer_names) = 2

\* C3: a LayerManager call (add, get, remove, move, rename, copy, clear) that
\* raises leaves layer_names and layers exactly as they were before the call.
C3_RaisingCallChangesNothing ==
    [][Raised(last'.result) => (layer_names' = layer_names /\ layers' = layers)]_vars

\* an add at an out-of-range position was refused on a layout with layers
C3_Witness ==
    /\ last.op = "add"
    /\ last.result = OutOfRange
    /\ Len(layer_names) >= 1

\* some name of the list is a layer of the layout
Collides(list, lnames) == \E i \in 1..Len(list) : In(list[i], lnames)

\* some name of the list is no layer of the layout
Misses(list, lnames) == \E i \in 1..Len(list) : ~In(list[i], lnames)

\* C4: add_multiple with a name that collides with an existing layer raises
\* and leaves the model unchanged: no name of the list is added.
C4_AddMultipleAllOrNothing ==
    [][(last'.op = "add_multiple" /\ Collides(last'.list, layer_names))
          => /\ Raised(last'.result)
             /\ layer_names' = layer_names
             /\ layers' = layers]_vars

\* add_multiple of a new name followed by an existing one raised, and the
\* new name listed first is not in the layout
C4_Witness ==
    /\ last.op = "add_multiple"
    /\ last.result = AlreadyExists
    /\ Len(last.list) = 2
    /\ ~In(last.list[1], layer_names)
    /\ In(last.list[2], layer_names)

\* C5: remove_multiple with a name that is no existing layer raises and leaves
\* the model unchanged: no layer of the list is removed.
C5_RemoveMultipleAllOrNothing ==
    [][(last'.op = "remove_multiple" /\ Misses(last'.list, layer_names))
          => /\ Raised(last'.result)
             /\ layer_names' = layer_names
             /\ layers' = layers]_vars

\* remove_multiple of an existing layer followed by a missing one raised, and
\* the existing layer listed first is still in the layout
C5_Witness ==
    /\ last.op = "remove_multiple"
    /\ last.result = NotFound
    /\ Len(last.list) = 2
    /\ In(last.list[1], layer_names)
    /\ ~In(last.list[2], layer_names)

\* the last call removed the layer the held proxy was obtained for
RemovedProxiedLayer ==
    /\ proxy # None
    /\ last.result = OK
    /\ \/ last.op = "remove" /\ last.name = proxy[1]
       \/ last.op = "remove_multiple" /\ In(proxy[1], last.list)

\* C6: a proxy resolves its layer by name on each access: an access succeeds
\* exactly when the name is a layer at that time, and the access that follows
\* the removal of the proxy's layer raises the layer-not-found error.
C6_StaleProxyRaises ==
    [][last'.op = "proxy_access"
          => /\ (last'.result = OK) <=> In(proxy[1], layer_names)
             /\ RemovedProxiedLayer => last'.result = NotFound]_vars

\* an access through a proxy whose layer is gone raised layer-not-found
C6_Witness ==
    /\ last.op = "proxy_access"
    /\ last.result = NotFound
    /\ proxy # None
    /\ ~In(proxy[1], layer_names)

----------------------------------------------------------------------------
(* ValidationPipeline (validation/pipeline.py).  A pipeline is its         *)
(* ValidationState; the layout it validates is the layout object of the    *)
(* behaviour.  Every validate_* is an operator from the layout and the     *)
(* receiver's state to the layout after the call and the state of the      *)
(* pipeline it returns.                                                    *)

\* ValidationState(errors, warnings)
ValidationState(errors, warnings) == [errors |-> errors, warnings |-> warnings]

\* ValidationPipeline.__init__ without a state
EmptyState == ValidationState(<< >>, << >>)

\* ValidationError / ValidationWarning: the message's text and values, and the context
Finding(message, context) == [message |-> message, context |-> context]

\* the layout object a pipeline reads
LayoutObj(lnames, lys, cbs, hc, hts) ==
    [layer_names |-> lnames, layers |-> lys, combos |-> cbs, has_combos |-> hc,
     hold_taps |-> hts]

Checked(layout, state) == [layout |-> layout, state |-> state]

\* self._layout.layers.get(layer_name).bindings
bindings_of(layout, layer_name) ==
    layout.layers[Index(layout.layer_names, layer_name) + 1]

\* the findings of a loop: the lists its rounds append, one after another
RECURSIVE Flatten(_)
Flatten(lists) ==
    IF lists = << >>
    THEN << >>
    ELSE IF Len(lists) = 1
         THEN lists[1]
         ELSE LET half == Len(lists) \div 2
              IN  Flatten(SubSeq(lists, 1, half)) \o Flatten(SubSeq(lists, half + 1, Len(lists)))

known_behaviors ==
    { <<"&", "k", "p">>,
      <<"&", "m", "t">>,
      <<"&", "l", "t">>,
      <<"&", "m", "o">>,
      <<"&", "t", "o">>,
      <<"&", "t", "o", "g">>,
      <<"&", "s", "l">>,
      <<"&", "t", "r", "a", "n", "s">>,
      <<"&", "n", "o", "n", "e">>,
      <<"&", "b", "o", "o", "t", "l", "o", "a", "d", "e", "r">>,
      <<"&", "r", "e", "s", "e", "t">>,
      <<"&", "k", "e", "y", "_", "r", "e", "p", "e", "a", "t">>,
      <<"&", "c", "a", "p", "s", "_", "w", "o", "r", "d">>,
      <<"&", "s", "k">>,
      <<"&", "g", "r", "e", "s", "c">>,
      <<"&", "r", "g", "b", "_", "u", "g">>,
      <<"&", "b", "t">>,
      <<"&", "e", "x", "t", "_", "p", "o", "w", "e", "r">>,
      <<"&", "o", "u", "t">> }

V_amp    == <<"&">>
V_hm     == <<"&", "h", "m">>
V_dollar == <<"$">>
V_braces == <<"{", "{">>

\* the findings validate_bindings adds for one binding
binding_errors(layer_name, i, binding) ==
    LET behavior_base == SplitUnderscoreHead(binding.value)
        syntax ==
            IF ~StartsWith(binding.value, V_amp)
            THEN <<Finding(<<"Invalid binding syntax in layer", layer_name, i, binding.value>>,
                           [layer |-> layer_name, position |-> i, binding |-> binding])>>
            ELSE << >>
        unknown ==
            IF /\ behavior_base \notin known_behaviors
               /\ ~StartsWith(binding.value, V_hm)
               /\ ~(StartsWith(binding.value, V_amp) /\ Len(binding.value) > 1)
            THEN <<Finding(<<"Unknown behavior in layer", layer_name, i, binding.value>>,
                           [layer |-> layer_name, position |-> i, binding |-> binding])>>
            ELSE << >>
    IN  syntax \o unknown

\* ValidationPipeline.validate_bindings
validate_bindings(layout, state) ==
    LET lnames == names(layout)
        PerLayer(k) ==
            LET layer_name == lnames[k]
                bs == bindings_of(layout, layer_name)
                PerBinding(j) == binding_errors(layer_name, j - 1, bs[j])
            IN  Flatten([j \in 1..Len(bs) |-> PerBinding(j)])
        new_errors == Flatten([k \in 1..Len(lnames) |-> PerLayer(k)])
    IN  Checked(layout, ValidationState(state.errors \o new_errors, state.warnings))

layer_behaviors == {V_mo, V_lt, V_sl, V_to, V_tog}

\* layer_reference_errors with the upper bound tested as layer_ref > layer_count
layer_reference_errors_off_by_one(lnames, layer_name, i, binding) ==
    LET layer_count == Len(lnames)
    IN  IF binding.value \in layer_behaviors /\ Len(binding.params) > 0
        THEN LET layer_ref == binding.params[1]
             IN  IF layer_ref.tag = "int"
                 THEN IF layer_ref.i < 0 \/ layer_ref.i > layer_count
                      THEN <<Finding(<<"Layer reference out of bounds in", layer_name,
                                       layer_ref.i, "valid: 0-", layer_count - 1>>,
                                     [layer |-> layer_name, position |-> i,
                                      reference |-> layer_ref.i,
                                      max_layer |-> layer_count - 1])>>
                      ELSE << >>
                 ELSE IF /\ ~In(layer_ref.s, lnames)
                         /\ ~StartsWith(layer_ref.s, V_dollar)
                         /\ ~StartsWith(layer_ref.s, V_braces)
                      THEN <<Finding(<<"Unknown layer reference in", layer_name, layer_ref.s>>,
                                     [layer |-> layer_name, position |-> i,
                                      reference |-> layer_ref.s,
                                      available_layers |-> lnames])>>
                      ELSE << >>
        ELSE << >>

\* layer_reference_errors that tests only the upper bound of an index
layer_reference_errors_upper_bound_only(lnames, layer_name, i, binding) ==
    LET layer_count == Len(lnames)
    IN  IF binding.value \in layer_behaviors /\ Len(binding.params) > 0
        THEN LET layer_ref == binding.params[1]
             IN  IF layer_ref.tag = "int"
                 THEN IF layer_ref.i >= layer_count
                      THEN <<Finding(<<"Layer reference out of bounds in", layer_name,
                                       layer_ref.i, "valid: 0-", layer_count - 1>>,
                                     [layer |-> layer_name, position |-> i,
                                      reference |-> layer_ref.i,
                                      max_layer |-> layer_count - 1])>>
                      ELSE << >>
                 ELSE IF /\ ~In(layer_ref.s, lnames)
                         /\ ~StartsWith(layer_ref.s, V_dollar)
                         /\ ~StartsWith(layer_ref.s, V_braces)
                      THEN <<Finding(<<"Unknown layer reference in", layer_name, layer_ref.s>>,
                                     [layer |-> layer_name, position |-> i,
                                      reference |-> layer_ref.s,
                                      available_layers |-> lnames])>>
                      ELSE << >>
        ELSE << >>

\* the findings validate_layer_references adds for one binding
layer_reference_errors(lnames, layer_name, i, binding) ==
    LET layer_count == Len(lnames)
    IN  IF binding.value \in layer_behaviors /\ Len(binding.params) > 0
        THEN LET layer_ref == binding.params[1]
             IN  IF layer_ref.tag = "int"
                 THEN IF layer_ref.i < 0 \/ layer_ref.i >= layer_count
                      THEN <<Finding(<<"Layer reference out of bounds in", layer_name,
                                       layer_ref.i, "valid: 0-", layer_count - 1>>,
                                     [layer |-> layer_name, position |-> i,
                                      reference |-> layer_ref.i,
                                      max_layer |-> layer_count - 1])>>
                      ELSE << >>
                 ELSE IF /\ ~In(layer_ref.s, lnames)
                         /\ ~StartsWith(layer_ref.s, V_dollar)
                         /\ ~StartsWith(layer_ref.s, V_braces)
                      THEN <<Finding(<<"Unknown layer reference in", layer_name, layer_ref.s>>,
                                     [layer |-> layer_name, position |-> i,
                                      reference |-> layer_ref.s,
                                      available_layers |-> lnames])>>
                      ELSE << >>
        ELSE << >>

\* validate_layer_references that keeps only its own errors
validate_layer_references_dropping_prior(layout, state) ==
    LET lnames == names(layout)
        PerLayer(k) ==
            LET layer_name == lnames[k]
                bs == bindings_of(layout, layer_name)
                PerBinding(j) == layer_reference_errors(lnames, layer_name, j - 1, bs[j])
            IN  Flatten([j \in 1..Len(bs) |-> PerBinding(j)])
        new_errors == Flatten([k \in 1..Len(lnames) |-> PerLayer(k)])
    IN  Checked(layout, ValidationState(new_errors, state.warnings))

\* ValidationPipeline.validate_layer_references
validate_layer_references(layout, state) ==
    LET lnames == names(layout)
        PerLayer(k) ==
            LET layer_name == lnames[k]
                bs == bindings_of(layout, layer_name)
                PerBinding(j) == layer_reference_errors(lnames, layer_name, j - 1, bs[j])
            IN  Flatten([j \in 1..Len(bs) |-> PerBinding(j)])
        new_errors == Flatten([k \in 1..Len(lnames) |-> PerLayer(k)])
    IN  Checked(layout, ValidationState(state.errors \o new_errors, state.warnings))

\* a layer with more bindings than this is reported as an error
HighKeyCount == 200

\* the default of validate_key_positions' max_keys
DefaultMaxKeys == 100

\* validate_key_positions that reports a layer of exactly the high key count
validate_key_positions_inclusive_limit(layout, state, max_keys) ==
    LET lnames == names(layout)
        WarnLayer(k) ==
            LET binding_count == Len(bindings_of(layout, lnames[k]))
            IN  IF binding_count > max_keys
                THEN <<Finding(<<"Layer has bindings, more than recommended", lnames[k],
                                 binding_count, max_keys>>,
                               [layer |-> lnames[k], count |-> binding_count,
                                max |-> max_keys])>>
                ELSE << >>
        ErrLayer(k) ==
            LET binding_count == Len(bindings_of(layout, lnames[k]))
            IN  IF binding_count >= HighKeyCount
                THEN <<Finding(<<"Layer has unusually high key count", lnames[k],
                                 binding_count>>,
                               [layer |-> lnames[k], count |-> binding_count])>>
                ELSE << >>
        new_warnings == Flatten([k \in 1..Len(lnames) |-> WarnLayer(k)])
        new_errors == Flatten([k \in 1..Len(lnames) |-> ErrLayer(k)])
    IN  Checked(layout, ValidationState(state.errors \o new_errors,
                                        state.warnings \o new_warnings))

\* ValidationPipeline.validate_key_positions
validate_key_positions(layout, state, max_keys) ==
    LET lnames == names(layout)
        WarnLayer(k) ==
            LET binding_count == Len(bindings_of(layout, lnames[k]))
            IN  IF binding_count > max_keys
                THEN <<Finding(<<"Layer has bindings, more than recommended", lnames[k],
                                 binding_count, max_keys>>,
                               [layer |-> lnames[k], count |-> binding_count,
                                max |-> max_keys])>>
                ELSE << >>
        ErrLayer(k) ==
            LET binding_count == Len(bindings_of(layout, lnames[k]))
            IN  IF binding_count > HighKeyCount
                THEN <<Finding(<<"Layer has unusually high key count", lnames[k],
                                 binding_count>>,
                               [layer |-> lnames[k], count |-> binding_count])>>
                ELSE << >>
        new_warnings == Flatten([k \in 1..Len(lnames) |-> WarnLayer(k)])
        new_errors == Flatten([k \in 1..Len(lnames) |-> ErrLayer(k)])
    IN  Checked(layout, ValidationState(state.errors \o new_errors,
                                        state.warnings \o new_warnings))

custom_prefixes ==
    { <<"&", "h", "m">>, <<"&", "h", "r", "m">>, <<"&", "h", "t">>,
      <<"&", "s", "k">>, <<"&", "s", "l">> }

\* every binding of every layer, as the loops over names and bindings meet them
all_bindings(layout) ==
    UNION { { bindings_of(layout, names(layout)[k])[j] :
                j \in 1..Len(bindings_of(layout, names(layout)[k])) } :
            k \in 1..Len(names(layout)) }

\* ValidationPipeline.validate_behavior_references; the context's sorted list
\* of the set custom_behaviors is modelled as that set
validate_behavior_references(layout, state) ==
    LET custom_behaviors ==
            { b.value : b \in
                { c \in all_bindings(layout) :
                    /\ StartsWith(c.value, V_amp)
                    /\ HasUnderscore(c.value)
                    /\ SplitUnderscoreHead(c.value) \in custom_prefixes } }
        new_warnings ==
            IF custom_behaviors # {}
            THEN <<Finding(<<"Found custom behavior references", Cardinality(custom_behaviors)>>,
                           [behaviors |-> custom_behaviors])>>
            ELSE << >>
    IN  Checked(layout, ValidationState(state.errors, state.warnings \o new_warnings))

\* sorted(list) of integers
RECURSIVE Sorted(_)
Sorted(list) ==
    IF list = << >>
    THEN << >>
    ELSE LET rest == Sorted(Tail(list))
             x == Head(list)
             k == Cardinality({ j \in 1..Len(rest) : rest[j] < x })
         IN  SubSeq(rest, 1, k) \o <<x>> \o SubSeq(rest, k + 1, Len(rest))

\* Combo: its name and key_positions
Combo(name, key_positions) == [name |-> name, key_positions |-> key_positions]

\* max(len(layer.bindings)) over the layers, 0 without layers
max_position_of(layout) ==
    LET sizes == { Len(bindings_of(layout, names(layout)[k])) : k \in 1..Len(names(layout)) }
    IN  IF sizes = {} THEN 0 ELSE CHOOSE m \in sizes : \A n \in sizes : n <= m

\* the findings of validate_combo_positions, given its combo loop
combo_findings(layout) ==
    LET max_position == max_position_of(layout)
        cbs == layout.combos
        Seen(k) == { Sorted(cbs[m].key_positions) :
                       m \in { n \in 1..(k - 1) : cbs[n].key_positions # << >> } }
        WarnCombo(k) ==
            IF cbs[k].key_positions # << >> /\ Sorted(cbs[k].key_positions) \in Seen(k)
            THEN <<Finding(<<"Duplicate combo positions", Sorted(cbs[k].key_positions)>>,
                           [positions |-> Sorted(cbs[k].key_positions)])>>
            ELSE << >>
        ErrCombo(k) ==
            LET kp == cbs[k].key_positions
                ErrPos(j) ==
                    IF kp[j] >= max_position
                    THEN <<Finding(<<"Combo position exceeds maximum key count",
                                     kp[j], max_position>>,
                                   [position |-> kp[j], max_position |-> max_position,
                                    combo |-> cbs[k].name])>>
                    ELSE << >>
            IN  Flatten([j \in 1..Len(kp) |-> ErrPos(j)])
    IN  IF layout.has_combos /\ cbs # << >>
        THEN ValidationState(Flatten([k \in 1..Len(cbs) |-> ErrCombo(k)]),
                             Flatten([k \in 1..Len(cbs) |-> WarnCombo(k)]))
        ELSE EmptyState

\* validate_combo_positions that sorts each combo's key_positions in place
validate_combo_positions_sorting_in_place(layout, state) ==
    LET found == combo_findings(layout)
        sorted_combos ==
            [k \in 1..Len(layout.combos) |->
                Combo(layout.combos[k].name, Sorted(layout.combos[k].key_positions))]
        after == IF layout.has_combos
                 THEN [layout EXCEPT !.combos = sorted_combos]
                 ELSE layout
    IN  Checked(after, ValidationState(state.errors \o found.errors,
                                       state.warnings \o found.warnings))

\* ValidationPipeline.validate_combo_positions
validate_combo_positions(layout, state) ==
    LET found == combo_findings(layout)
    IN  Checked(layout, ValidationState(state.errors \o found.errors,
                                        state.warnings \o found.warnings))

\* ValidationPipeline.collect_errors
collect_errors(state) == state.errors

\* ValidationPipeline.collect_warnings
collect_warnings(state) == state.warnings

\* is_valid that also wants no warnings
is_valid_without_warnings(state) == Len(state.errors) = 0 /\ Len(state.warnings) = 0

\* ValidationPipeline.is_valid
is_valid(state) == Len(state.errors) = 0

\* ValidationPipeline.summary
summary(state) ==
    [errors |-> state.errors, warnings |-> state.warnings, is_valid |-> is_valid(state)]

----------------------------------------------------------------------------
(* The layouts validated *)

S_nope == <<"n", "o", "p", "e">>
S_var  == <<"$", "x">>
S_tpl  == <<"{", "{", "v", "}", "}">>

B_mo_0     == Binding(V_mo, <<PInt(0)>>)
B_mo_2     == Binding(V_mo, <<PInt(2)>>)
B_mo_3     == Binding(V_mo, <<PInt(3)>>)
B_mo_5     == Binding(V_mo, <<PInt(5)>>)
B_to_neg   == Binding(V_to, <<PInt(-1)>>)
B_mo_bare  == Binding(V_mo, << >>)
B_lt_func  == Binding(V_lt, <<PStr(S_func), PStr(<<"A">>)>>)
B_sl_nope  == Binding(V_sl, <<PStr(S_nope)>>)
B_to_var   == Binding(V_to, <<PStr(S_var)>>)
B_tog_tpl  == Binding(V_tog, <<PStr(S_tpl)>>)
B_no_amp   == Binding(<<"k", "p">>, <<PStr(<<"A">>)>>)
B_amp_only == Binding(V_amp, << >>)
B_foo      == Binding(<<"&", "f", "o", "o">>, << >>)
B_hm_l     == Binding(<<"&", "h", "m", "_", "l">>, <<PStr(<<"A">>)>>)
B_sk_x     == Binding(<<"&", "s", "k", "_", "x">>, << >>)

BindingPool ==
    { B_kp_A, B_mo_0, B_mo_1, B_mo_2, B_mo_5, B_to_neg, B_mo_bare, B_lt_func, B_sl_nope,
      B_to_var, B_tog_tpl, B_no_amp, B_amp_only, B_foo, B_hm_l, B_sk_x }

\* layers of two bindings
LayerPairs ==
    { <<B_mo_5, B_sl_nope>>, <<B_no_amp, B_amp_only>>, <<B_hm_l, B_sk_x>>,
      <<B_to_var, B_mo_0>>, <<B_kp_A, B_mo_1>> }

C_10  == Combo("c_10", <<1, 0>>)
C_01  == Combo("c_01", <<0, 1>>)
C_2   == Combo("c_2", <<2>>)
C_bad == Combo("c_bad", <<3, 0>>)

\* a layer of n transparent keys
WideLayer(n) == [j \in 1..n |-> B_trans]

\* layer sizes on both sides of the recommended and of the high key count
LayerSizes == {DefaultMaxKeys, DefaultMaxKeys + 1, HighKeyCount, HighKeyCount + 1}

\* the hold-taps a layout defines beside the references &hm_l and &sk_x
HoldTapSets == { {}, {B_hm_l.value}, {B_hm_l.value, B_sk_x.value} }

\* a core Layout has no attribute combos, whatever combos its data holds;
\* other layout objects may have one
ValidatedLayouts ==
    {LayoutObj(<< >>, << >>, << >>, FALSE, {})}
    \cup { LayoutObj(<<S_base>>, << <<b>> >>, << >>, FALSE, {}) : b \in BindingPool }
    \cup { LayoutObj(<<S_base, S_func>>, << <<b>>, <<B_trans, B_kp_A>> >>, << >>, FALSE, {}) :
             b \in BindingPool }
    \cup { LayoutObj(<<S_base, S_func, S_nav>>, << <<B_kp_A>>, <<b>>, <<B_trans>> >>,
                     << >>, FALSE, {}) :
             b \in {B_mo_2, B_mo_3, B_mo_5, B_lt_func, B_sl_nope} }
    \cup { LayoutObj(<<S_base>>, <<l>>, << >>, FALSE, {}) : l \in LayerPairs }
    \cup { LayoutObj(<<S_base, S_func>>, << <<B_hm_l, B_kp_A>>, <<B_sk_x, B_hm_l>> >>,
                     << >>, FALSE, hts) : hts \in HoldTapSets }
    \cup { LayoutObj(<<S_base, S_func>>, << WideLayer(n), <<B_trans>> >>, << >>, FALSE, {}) :
             n \in LayerSizes }
    \cup { LayoutObj(<<S_base, S_func>>, << <<B_kp_A, B_kp_B>>, <<B_trans>> >>, cbs, hc, {}) :
             cbs \in { <<C_10, C_01>>, <<C_bad, C_2>>, <<C_2>> }, hc \in BOOLEAN }

\* the max_keys arguments callers pass
MaxKeysArgs == {1, DefaultMaxKeys, HighKeyCount + 50}

----------------------------------------------------------------------------
(* The calls a program makes on the pipelines of one layout *)

ValCall(op, recv, arg, value) ==
    [op |-> op, recv |-> recv, arg |-> arg, value |-> value, result |-> OK]

CurrentLayout == LayoutObj(layer_names, layers, combos, has_combos, hold_taps)

\* the call returns a new pipeline; the layout object is what the call left
Returns(op, recv, arg, r) ==
    /\ Len(pipes) < MaxPipes
    /\ layer_names' = r.layout.layer_names
    /\ layers' = r.layout.layers
    /\ combos' = r.layout.combos
    /\ has_combos' = r.layout.has_combos
    /\ hold_taps' = r.layout.hold_taps
    /\ pipes' = Append(pipes, r.state)
    /\ last' = ValCall(op, recv, arg, Len(pipes) + 1)
    /\ UNCHANGED <<proxy, emit_vars, json_vars,
                   more_vars>>

ValidateBindings(p) ==
    Returns("validate_bindings", p, 0, validate_bindings(CurrentLayout, pipes[p]))

ValidateLayerReferences(p) ==
    Returns("validate_layer_references", p, 0,
            validate_layer_references(CurrentLayout, pipes[p]))

ValidateKeyPositions(p, max_keys) ==
    Returns("validate_key_positions", p, max_keys,
            validate_key_positions(CurrentLayout, pipes[p], max_keys))

ValidateBehaviorReferences(p) ==
    Returns("validate_behavior_references", p, 0,
            validate_behavior_references(CurrentLayout, pipes[p]))

ValidateComboPositions(p) ==
    Returns("validate_combo_positions", p, 0,
            validate_combo_positions(CurrentLayout, pipes[p]))

\* an accessor returns a value and creates no pipeline
Reads(op, recv, value) ==
    /\ last' = ValCall(op, recv, 0, value)
    /\ UNCHANGED <<layer_names, layers, combos, has_combos, hold_taps, proxy, pipes,
                   emit_vars, json_vars,
                   more_vars>>

CollectErrors(p) == Reads("collect_errors", p, collect_errors(pipes[p]))

CollectWarnings(p) == Reads("collect_warnings", p, collect_warnings(pipes[p]))

IsValid(p) == Reads("is_valid", p, is_valid(pipes[p]))

Summary(p) == Reads("summary", p, summary(pipes[p]))

\* ValidationPipeline(layout) on one of the layouts
InitVal ==
    /\ \E l \in ValidatedLayouts :
          /\ layer_names = l.layer_names
          /\ layers = l.layers
          /\ combos = l.combos
          /\ has_combos = l.has_combos
          /\ hold_taps = l.hold_taps
    /\ proxy = None
    /\ pipes = <<EmptyState>>
    /\ NoBuilder
    /\ NoJson
    /\ NoMore
    /\ last = NoCall

\* the pipelines alive
Pipes == 1..Len(pipes)

NextVal ==
    \/ \E p \in Pipes : ValidateBindings(p)
    \/ \E p \in Pipes : ValidateLayerReferences(p)
    \/ \E p \in Pipes, max_keys \in MaxKeysArgs : ValidateKeyPositions(p, max_keys)
    \/ \E p \in Pipes : ValidateBehaviorReferences(p)
    \/ \E p \in Pipes : ValidateComboPositions(p)
    \/ \E p \in Pipes : CollectErrors(p)
    \/ \E p \in Pipes : CollectWarnings(p)
    \/ \E p \in Pipes : IsValid(p)
    \/ \E p \in Pipes : Summary(p)

SpecVal == InitVal /\ [][NextVal]_vars

----------------------------------------------------------------------------
(* Claims about the ValidationPipeline *)

ValidateOps ==
    { "validate_bindings", "validate_layer_references", "validate_key_positions",
      "validate_behavior_references", "validate_combo_positions" }

\* C7: no validate_* check and no result accessor modifies the layout being
\* validated: layer_names, every layer's bindings and the combos are the same
\* after the call as before it.
C7_ValidationLeavesLayout ==
    [][/\ layer_names' = layer_names
       /\ layers' = layers
       /\ combos' = combos
       /\ has_combos' = has_combos
       /\ hold_taps' = hold_taps]_vars

\* collect_errors returned the errors of a combo check, and the combo's
\* key_positions are still in the order the layout gave them
C7_Witness ==
    /\ last.op = "collect_errors"
    /\ last.value # << >>
    /\ has_combos
    /\ combos = <<C_bad, C_2>>
    /\ Len(layers) = 2

\* s is an initial segment of t
IsPrefix(s, t) == Len(s) <= Len(t) /\ SubSeq(t, 1, Len(s)) = s

\* C8: a validate_* call returns a new pipeline whose errors and warnings
\* begin with the receiver's, and it changes no pipeline that existed, the
\* receiver included.
C8_ImmutableAccumulation ==
    [][last'.op \in ValidateOps
          => /\ Len(pipes') = Len(pipes) + 1
             /\ \A i \in 1..Len(pipes) : pipes'[i] = pipes[i]
             /\ IsPrefix(pipes[last'.recv].errors, pipes'[Len(pipes')].errors)
             /\ IsPrefix(pipes[last'.recv].warnings, pipes'[Len(pipes')].warnings)]_vars

\* a check added errors to a receiver that already had some
C8_Witness ==
    /\ last.op \in ValidateOps
    /\ pipes[last.recv].errors # << >>
    /\ Len(pipes[last.value].errors) > Len(pipes[last.recv].errors)
    /\ IsPrefix(pipes[last.recv].errors, pipes[last.value].errors)

\* C9: is_valid() and summary().is_valid are true exactly when the pipeline
\* has no error, whatever its warnings.
C9_ValidIffNoErrors ==
    /\ last.op = "is_valid"
          => (last.value <=> pipes[last.recv].errors = << >>)
    /\ last.op = "summary"
          => /\ last.value.is_valid <=> pipes[last.recv].errors = << >>
             /\ last.value.errors = pipes[last.recv].errors
             /\ last.value.warnings = pipes[last.recv].warnings

\* is_valid() returned true on a pipeline that holds warnings
C9_Witness ==
    /\ last.op = "is_valid"
    /\ last.value = TRUE
    /\ pipes[last.recv].warnings # << >>
    /\ pipes[last.recv].errors = << >>

\* the last call was validate_layer_references and it added no error
CleanLayerReferences ==
    /\ last.op = "validate_layer_references"
    /\ pipes[last.value].errors = pipes[last.recv].errors

\* the first parameters of the layout's &mo, &lt, &sl, &to, &tog bindings
LayerRefs ==
    { b.params[1] : b \in { c \in all_bindings(CurrentLayout) :
                              c.value \in layer_behaviors /\ Len(c.params) > 0 } }

\* the parameter is a layer index in range, or the name of a layer
ResolvesToLayer(param) ==
    \/ param.tag = "int" /\ 0 <= param.i /\ param.i < Len(layer_names)
    \/ param.tag = "str" /\ In(param.s, layer_names)

\* the parameter is a string that looks like an unresolved define
UnresolvedDefine(param) ==
    /\ param.tag = "str"
    /\ StartsWith(param.s, V_dollar) \/ StartsWith(param.s, V_braces)

\* C10 as stated: in a layout validate_layer_references finds clean, every
\* &mo, &lt, &sl, &to, &tog binding's first parameter resolves to a valid layer.
C10_Original ==
    CleanLayerReferences => \A param \in LayerRefs : ResolvesToLayer(param)

\* C10: in a layout validate_layer_references finds clean, every &mo, &lt,
\* &sl, &to, &tog binding's first parameter is an index in
\* [0, len(layer_names)), the name of a layer, or a string that starts
\* with "$" or "{{".
C10_CleanReferencesResolveOrAreDefines ==
    CleanLayerReferences
        => \A param \in LayerRefs : ResolvesToLayer(param) \/ UnresolvedDefine(param)

\* validate_layer_references found no error in a layer holding &to $x and &mo 0
C10_Witness ==
    /\ CleanLayerReferences
    /\ layers = << <<B_to_var, B_mo_0>> >>
    /\ PInt(0) \in LayerRefs

----------------------------------------------------------------------------
(* Claims about the single checks *)

\* the errors and the warnings the check just made added to its receiver's
NewErrors ==
    SubSeq(pipes[last.value].errors, Len(pipes[last.recv].errors) + 1,
           Len(pipes[last.value].errors))

NewWarnings ==
    SubSeq(pipes[last.value].warnings, Len(pipes[last.recv].warnings) + 1,
           Len(pipes[last.value].warnings))

\* the places of the layout: a layer's index and the index of a binding in it
Places == UNION { { <<k, j>> : j \in 1..Len(layers[k]) } : k \in 1..Len(layers) }

BindingAt(place) == layers[place[1]][place[2]]

\* a new error whose context names the place
ErrorsAt(place) ==
    { e \in 1..Len(NewErrors) :
        /\ NewErrors[e].context.layer = layer_names[place[1]]
        /\ NewErrors[e].context.position = place[2] - 1 }

\* a layer behavior whose first parameter is no layer and no unresolved define
BadLayerReference(binding) ==
    /\ binding.value \in layer_behaviors
    /\ Len(binding.params) > 0
    /\ ~ResolvesToLayer(binding.params[1])
    /\ ~UnresolvedDefine(binding.params[1])

\* C11: validate_layer_references adds an error for a &mo, &lt, &sl, &to or
\* &tog binding exactly when its first parameter is an integer outside
\* [0, len(layer_names)) or a string that is neither a layer name nor starts
\* with "$" or "{{"; the error of an integer reports it and
\* max_layer = len(layer_names) - 1, and the pipeline returned is not valid.
C11_LayerReferenceErrors ==
    last.op = "validate_layer_references"
        => /\ \A place \in Places :
                 Cardinality(ErrorsAt(place)) =
                     IF BadLayerReference(BindingAt(place)) THEN 1 ELSE 0
           /\ Len(NewErrors) =
                 Cardinality({ place \in Places : BadLayerReference(BindingAt(place)) })
           /\ \A place \in Places : \A e \in ErrorsAt(place) :
                 /\ BindingAt(place).params[1].tag = "int"
                       => NewErrors[e].context.reference = BindingAt(place).params[1].i
                 /\ BindingAt(place).params[1].tag = "int"
                       => NewErrors[e].context.max_layer = Len(layer_names) - 1
           /\ NewErrors # << >> => ~is_valid(pipes[last.value])

\* with three layer names, &mo 5 got the one error, reporting 5 and max_layer 2
C11_Witness ==
    /\ last.op = "validate_layer_references"
    /\ Len(layer_names) = 3
    /\ layers[2] = <<B_mo_5>>
    /\ Len(NewErrors) = 1
    /\ NewErrors[1].context.reference = 5
    /\ NewErrors[1].context.max_layer = 2
    /\ ~is_valid(pipes[last.value])

\* a new warning whose context names the place
WarningsAt(place) ==
    { w \in 1..Len(NewWarnings) :
        /\ NewWarnings[w].context.layer = layer_names[place[1]]
        /\ NewWarnings[w].context.position = place[2] - 1 }

\* a behavior outside the known behaviors that no definition of the user names
UnknownBehavior(binding) ==
    /\ binding.value \notin known_behaviors
    /\ binding.value \notin hold_taps

\* C12: validate_bindings reports a binding whose behavior is outside the
\* known behaviors and matches no user-defined behavior name as a warning and
\* not as an error, so that a pipeline holding nothing else stays valid.
C12_UnknownBehaviorWarns ==
    last.op = "validate_bindings"
        => \A place \in Places :
              UnknownBehavior(BindingAt(place)) /\ StartsWith(BindingAt(place).value, V_amp)
                  => /\ WarningsAt(place) # {}
                     /\ ErrorsAt(place) = {}

\* the references of the layout that follow a prefix convention
PrefixReferences ==
    { b.value : b \in { c \in all_bindings(CurrentLayout) :
                          /\ StartsWith(c.value, V_amp)
                          /\ HasUnderscore(c.value)
                          /\ SplitUnderscoreHead(c.value) \in custom_prefixes } }

\* those of them no definition of the user matches
UndefinedReferences == PrefixReferences \ hold_taps

\* C13: validate_behavior_references warns about the references that follow a
\* prefix convention (&hm_, &hrm_, &ht_, &sk_, &sl_) only when some have no
\* matching user definition, and the warning lists exactly those; a layout
\* whose references are all defined gets no warning.
C13_WarnsOnlyUndefinedReferences ==
    last.op = "validate_behavior_references"
        => IF UndefinedReferences = {}
           THEN NewWarnings = << >>
           ELSE /\ Len(NewWarnings) = 1
                /\ NewWarnings[1].context.behaviors = UndefinedReferences

\* the combo key positions that are not below the size of the largest layer
HighComboPositions ==
    UNION { { <<k, j>> : j \in { i \in 1..Len(combos[k].key_positions) :
                                   combos[k].key_positions[i] >=
                                       max_position_of(CurrentLayout) } } :
            k \in 1..Len(combos) }

\* C14: validate_combo_positions reports an error for every combo key position
\* that is not below max_key_position, the size of the largest layer, for
\* every layout that has combos.
C14_ComboPositionErrors ==
    last.op = "validate_combo_positions"
        => \A at \in HighComboPositions :
              \E e \in 1..Len(NewErrors) :
                 /\ NewErrors[e].context.combo = combos[at[1]].name
                 /\ NewErrors[e].context.position = combos[at[1]].key_positions[at[2]]
                 /\ NewErrors[e].context.max_position = max_position_of(CurrentLayout)

\* the new findings whose context names the layer
LayerFindings(findings, k) ==
    { f \in 1..Len(findings) : findings[f].context.layer = layer_names[k] }

\* C15: validate_key_positions(max_keys) adds a warning for every layer of
\* more than max_keys bindings and an error for every layer of more than 200,
\* and nothing for a layer that exceeds neither.
C15_KeyPositionFindings ==
    last.op = "validate_key_positions"
        => /\ \A k \in 1..Len(layers) :
                 /\ Cardinality(LayerFindings(NewWarnings, k)) =
                        IF Len(layers[k]) > last.arg THEN 1 ELSE 0
                 /\ Cardinality(LayerFindings(NewErrors, k)) =
                        IF Len(layers[k]) > 200 THEN 1 ELSE 0
                 /\ \A w \in LayerFindings(NewWarnings, k) :
                        /\ NewWarnings[w].context.count = Len(layers[k])
                        /\ NewWarnings[w].context.max = last.arg
                 /\ \A e \in LayerFindings(NewErrors, k) :
                        NewErrors[e].context.count = Len(layers[k])
           /\ Len(NewWarnings) =
                 Cardinality({ k \in 1..Len(layers) : Len(layers[k]) > last.arg })
           /\ Len(NewErrors) =
                 Cardinality({ k \in 1..Len(layers) : Len(layers[k]) > 200 })

\* with max_keys 250, a layer of 201 bindings got an error and no warning,
\* and the layer of one binding beside it got nothing
C15_Witness ==
    /\ last.op = "validate_key_positions"
    /\ last.arg = 250
    /\ Len(layers) = 2
    /\ Len(layers[1]) = 201
    /\ Len(NewErrors) = 1
    /\ NewWarnings = << >>
    /\ LayerFindings(NewErrors, 2) = {}

----------------------------------------------------------------------------
(* KeymapBuilder (generators/keymap_generator.py).  A str is the sequence  *)
(* of its pieces, "" the empty sequence, and a line break the piece NL.    *)
(* The profiles drawn have keyboard_config.keymap and its attributes.      *)

NL == "\n"

\* "\n".join(parts)
RECURSIVE Join(_)
Join(parts) ==
    IF parts = << >>
    THEN << >>
    ELSE IF Len(parts) = 1
         THEN parts[1]
         ELSE parts[1] \o <<NL>> \o Join(Tail(parts))

\* datetime.now(): the instant, and the calendar year it falls in, counted
\* from the year the builder was made
Clock(instant, year) == [instant |-> instant, year |-> year]

\* KeymapBuilder.__init__ with a profile that names no default template
NewBuilder ==
    [include_headers |-> TRUE, include_behaviors |-> TRUE, include_combos |-> TRUE,
     include_macros |-> TRUE, include_tap_dances |-> TRUE, template_path |-> None,
     template_context |-> {}, zmk_generator |-> FALSE]

with_headers(b, include) == [b EXCEPT !.include_headers = include]

with_behaviors(b, include) == [b EXCEPT !.include_behaviors = include]

with_combos(b, include) == [b EXCEPT !.include_combos = include]

with_macros(b, include) == [b EXCEPT !.include_macros = include]

with_tap_dances(b, include) == [b EXCEPT !.include_tap_dances = include]

with_template(b, template_path) == [b EXCEPT !.template_path = Some(template_path)]

\* self._template_context.update(key=value)
with_context(b, key, value) ==
    [b EXCEPT !.template_context =
        { e \in @ : e.key # key } \cup {[key |-> key, value |-> value]}]

\* the LayoutData a builder reads
EmitData(lnames, lys, hts, tds, cbs, mcs, cdb, cdt) ==
    [layer_names |-> lnames, layers |-> lys, hold_taps |-> hts, tap_dances |-> tds,
     combos |-> cbs, macros |-> mcs, custom_defined_behaviors |-> cdb,
     custom_devicetree |-> cdt]

\* ZMKGenerator.generate_layer_defines: one #define a layer, in layer_names order
generate_layer_defines(lnames) ==
    Join([k \in 1..Len(lnames) |->
            <<"#define ">> \o lnames[k] \o <<" ", ToString(k - 1)>>])

\* the other fragments of the ZMKGenerator: a text that is not empty
generate_behaviors_dtsi(hts) == <<"behaviors { hold-taps }">>

generate_tap_dances_dtsi(tds) == <<"behaviors { tap-dances }">>

generate_combos_dtsi(cbs, lnames) == <<"/ { combos { } };">>

generate_macros_dtsi(mcs) == <<"/ { macros { } };">>

generate_keymap_node(lnames, layers_data) == <<"keymap { compatible; layers }">>

\* KeymapBuilder._get_resolved_includes
get_resolved_includes(b, prof) ==
    IF b.include_headers
    THEN [k \in 1..Len(prof.header_includes) |->
            <<"#include <", prof.header_includes[k], ">">>]
    ELSE << >>

\* KeymapBuilder._get_key_position_header
get_key_position_header(prof) == prof.key_position_header

\* KeymapBuilder._get_system_behaviors_dts
get_system_behaviors_dts(prof) == prof.system_behaviors_dts

ContextKeys ==
    { "layer_defines", "keymap_node", "user_behaviors_dtsi", "user_tap_dances_dtsi",
      "combos_dtsi", "user_macros_dtsi", "resolved_includes", "key_position_header",
      "system_behaviors_dts", "custom_defined_behaviors", "custom_devicetree",
      "generation_timestamp" }

\* KeymapBuilder._build_context: the entries that are texts
build_context(b, data, prof, clock) ==
    LET own ==
            [ layer_defines |-> generate_layer_defines(data.layer_names),
              keymap_node |-> generate_keymap_node(data.layer_names, data.layers),
              user_behaviors_dtsi |->
                  IF b.include_behaviors /\ data.hold_taps # {}
                  THEN generate_behaviors_dtsi(data.hold_taps) ELSE << >>,
              user_tap_dances_dtsi |->
                  IF b.include_tap_dances /\ data.tap_dances # << >>
                  THEN generate_tap_dances_dtsi(data.tap_dances) ELSE << >>,
              combos_dtsi |->
                  IF b.include_combos /\ data.combos # << >>
                  THEN generate_combos_dtsi(data.combos, data.layer_names) ELSE << >>,
              user_macros_dtsi |->
                  IF b.include_macros /\ data.macros # << >>
                  THEN generate_macros_dtsi(data.macros) ELSE << >>,
              resolved_includes |-> Join(get_resolved_includes(b, prof)),
              key_position_header |-> get_key_position_header(prof),
              system_behaviors_dts |-> get_system_behaviors_dts(prof),
              custom_defined_behaviors |-> data.custom_defined_behaviors,
              custom_devicetree |-> data.custom_devicetree,
              generation_timestamp |-> <<ToString(clock.instant)>> ]
        given == { e.key : e \in b.template_context }
    IN  [ key \in ContextKeys \cup given |->
            IF key \in given
            THEN (CHOOSE e \in b.template_context : e.key = key).value
            ELSE own[key] ]

\* a fragment and the blank part after it, or nothing when it is empty
Section(text) == IF text # << >> THEN <<text, << >> >> ELSE << >>

\* a fragment inside a root node and the blank part after it, or nothing
Wrapped(text) ==
    IF text # << >> THEN << <<"/ {">>, text, <<"};">>, << >> >> ELSE << >>

\* the license banner dated with the instant of the call
license_banner_with_instant(clock) ==
    << <<"/*">>,
       <<" * Copyright (c) ", ToString(clock.instant), " The ZMK Contributors">>,
       <<" * SPDX-License-Identifier: MIT">>,
       <<" */">>,
       << >> >>

\* the license banner: its four parts and the blank part after them
license_banner(clock) ==
    << <<"/*">>,
       <<" * Copyright (c) ", ToString(clock.year), " The ZMK Contributors">>,
       <<" * SPDX-License-Identifier: MIT">>,
       <<" */">>,
       << >> >>

\* _generate_direct whose tap-dance block is written without the test for ""
generate_direct_wrapping_always(b, context, clock) ==
    Join((IF b.include_headers
          THEN license_banner(clock) \o Section(context["resolved_includes"])
          ELSE << >>)
         \o Section(context["key_position_header"])
         \o Section(context["layer_defines"])
         \o Section(context["custom_defined_behaviors"])
         \o Wrapped(context["user_behaviors_dtsi"])
         \o << <<"/ {">>, context["user_tap_dances_dtsi"], <<"};">>, << >> >>
         \o Section(context["combos_dtsi"])
         \o Section(context["user_macros_dtsi"])
         \o Section(context["system_behaviors_dts"])
         \o Section(context["custom_devicetree"])
         \o << <<"/ {">>, context["keymap_node"], <<"};">> >>)

\* KeymapBuilder._generate_direct
generate_direct(b, context, clock) ==
    Join((IF b.include_headers
          THEN license_banner(clock) \o Section(context["resolved_includes"])
          ELSE << >>)
         \o Section(context["key_position_header"])
         \o Section(context["layer_defines"])
         \o Section(context["custom_defined_behaviors"])
         \o Wrapped(context["user_behaviors_dtsi"])
         \o Wrapped(context["user_tap_dances_dtsi"])
         \o Section(context["combos_dtsi"])
         \o Section(context["user_macros_dtsi"])
         \o Section(context["system_behaviors_dts"])
         \o Section(context["custom_devicetree"])
         \o << <<"/ {">>, context["keymap_node"], <<"};">> >>)

\* the template files: a placeholder {{key}} is one piece of the content
T_keymap  == "keymap.tpl"
T_stamped == "stamped.tpl"
T_missing == "missing.tpl"

\* a piece of a template's content: a text, or the placeholder of a key
Piece(text) == [placeholder |-> "", text |-> text]

Placeholder(key) == [placeholder |-> key, text |-> << >>]

template_files ==
    [ path \in {T_keymap, T_stamped} |->
        IF path = T_keymap
        THEN <<Placeholder("layer_defines"), Piece(<<NL>>), Placeholder("keymap_node")>>
        ELSE <<Piece(<<"// generated ">>), Placeholder("generation_timestamp"),
               Piece(<<NL>>), Placeholder("keymap_node"), Placeholder("note")>> ]

\* content.replace("{{key}}", str(value)) for every key of the context; a
\* placeholder the context has no key for stays as it is
replace_placeholders(content, context) ==
    Flatten([k \in 1..Len(content) |->
        IF content[k].placeholder = ""
        THEN content[k].text
        ELSE IF content[k].placeholder \in DOMAIN context
             THEN context[content[k].placeholder]
             ELSE <<"{{", content[k].placeholder, "}}">>])

FileNotFound == "FileNotFoundError"

\* KeymapBuilder._render_template without a template provider
render_template(b, context) ==
    IF b.template_path[1] \notin DOMAIN template_files
    THEN [result |-> FileNotFound, output |-> << >>]
    ELSE [result |-> OK,
          output |-> replace_placeholders(template_files[b.template_path[1]], context)]

\* KeymapBuilder.generate: the builder after the call, and what the call returns
generate(b, data, prof, clock) ==
    LET context == build_context(b, data, prof, clock)
        made == [b EXCEPT !.zmk_generator = TRUE]
    IN  IF b.template_path # None
        THEN [builder |-> made] @@ render_template(b, context)
        ELSE [builder |-> made, result |-> OK,
              output |-> generate_direct(b, context, clock)]

----------------------------------------------------------------------------
(* The calls a program makes on one KeymapBuilder, and the clock *)

MaxTicks == 1

H_behaviors == "behaviors.dtsi"
H_keys      == "dt-bindings/zmk/keys.h"

Profile(header_includes, key_position_header, system_behaviors_dts) ==
    [header_includes |-> header_includes, key_position_header |-> key_position_header,
     system_behaviors_dts |-> system_behaviors_dts]

\* KeymapBuilder._create_default_profile
DefaultProfile == Profile(<<H_behaviors, H_keys>>, << >>, << >>)

\* a profile with a key-position header and system behaviors
BaseProfile ==
    Profile(<<H_behaviors, H_keys>>, <<"/* Key positions */">>, <<"/* System behaviors */">>)

\* a profile without header_includes
BareProfile == Profile(<< >>, <<"/* Key positions */">>, << >>)

FullData ==
    EmitData(<<S_base, S_func>>, << <<B_kp_A, B_kp_B>>, <<B_trans, B_mo_1>> >>,
             {B_hm_l.value}, <<"td_0">>, <<C_01>>, <<"macro_0">>,
             <<"/* custom behaviors */">>, <<"/* custom devicetree */">>)

PlainData ==
    EmitData(<<S_base, S_func>>, << <<B_kp_A, B_kp_B>>, <<B_trans, B_mo_1>> >>,
             {}, << >>, << >>, << >>, << >>, << >>)

NoData == EmitData(<< >>, << >>, {}, << >>, << >>, << >>, << >>, << >>)

\* the layouts exported and the profile each is exported with
Exports ==
    { <<FullData, BaseProfile>>, <<FullData, DefaultProfile>>, <<FullData, BareProfile>>,
      <<PlainData, DefaultProfile>>, <<PlainData, BareProfile>>, <<NoData, BaseProfile>> }

CurrentData ==
    EmitData(layer_names, layers, hold_taps, tap_dances, combos, macros,
             custom_defined_behaviors, custom_devicetree)

data_vars ==
    <<layer_names, layers, combos, has_combos, hold_taps, tap_dances, macros,
      custom_defined_behaviors, custom_devicetree, profile, proxy, pipes, json_vars,
      more_vars>>

\* a with_* call returns the builder it changed
Configured == [op |-> "with", result |-> OK]

Configures(b) ==
    /\ builder' = b
    /\ last' = Configured
    /\ UNCHANGED <<data_vars, now>>

WithHeaders(include) == Configures(with_headers(builder, include))

WithBehaviors(include) == Configures(with_behaviors(builder, include))

WithCombos(include) == Configures(with_combos(builder, include))

WithMacros(include) == Configures(with_macros(builder, include))

WithTapDances(include) == Configures(with_tap_dances(builder, include))

WithTemplate(template_path) == Configures(with_template(builder, template_path))

WithContext(key, value) == Configures(with_context(builder, key, value))

\* generate(); the record of the call keeps the generate() call right before it
Generate ==
    LET r == generate(builder, CurrentData, profile, now)
    IN  /\ builder' = r.builder
        /\ last' = [op |-> "generate", result |-> r.result, output |-> r.output,
                    at |-> now,
                    previous |-> IF last.op = "generate"
                                 THEN Some([output |-> last.output, at |-> last.at])
                                 ELSE None]
        /\ UNCHANGED <<data_vars, now>>

\* time passes within the year
Tick ==
    /\ now.instant < MaxTicks
    /\ now' = Clock(now.instant + 1, now.year)
    /\ UNCHANGED <<data_vars, builder, last>>

\* time passes into the next year
NewYear ==
    /\ now.instant < MaxTicks
    /\ now' = Clock(now.instant + 1, now.year + 1)
    /\ UNCHANGED <<data_vars, builder, last>>

\* the keyword arguments with_context is called with: a variable of the caller's
\* own, and one named like a fragment _build_context generates
ContextArgs ==
    { [key |-> "note", value |-> <<"n">>],
      [key |-> "keymap_node", value |-> <<"/* my keymap */">>] }

\* layout.export.keymap(profile)
InitEmit ==
    /\ \E e \in Exports :
          /\ layer_names = e[1].layer_names
          /\ layers = e[1].layers
          /\ hold_taps = e[1].hold_taps
          /\ tap_dances = e[1].tap_dances
          /\ combos = e[1].combos
          /\ macros = e[1].macros
          /\ custom_defined_behaviors = e[1].custom_defined_behaviors
          /\ custom_devicetree = e[1].custom_devicetree
          /\ profile = e[2]
    /\ has_combos = FALSE
    /\ proxy = None
    /\ pipes = << >>
    /\ builder = NewBuilder
    /\ now = Clock(0, 0)
    /\ NoJson
    /\ NoMore
    /\ last = NoCall

NextEmit ==
    \/ \E include \in BOOLEAN : WithHeaders(include)
    \/ \E include \in BOOLEAN : WithBehaviors(include)
    \/ \E include \in BOOLEAN : WithCombos(include)
    \/ \E include \in BOOLEAN : WithMacros(include)
    \/ \E include \in BOOLEAN : WithTapDances(include)
    \/ \E template_path \in {T_stamped} : WithTemplate(template_path)
    \/ \E arg \in ContextArgs : WithContext(arg.key, arg.value)
    \/ Generate
    \/ Tick
    \/ NewYear

SpecEmit == InitEmit /\ [][NextEmit]_vars

----------------------------------------------------------------------------
(* Claims about the KeymapBuilder *)

\* generate() returned, right after a generate() call on the same builder
Regenerated ==
    /\ last.op = "generate"
    /\ last.result = OK
    /\ last.previous # None

\* C16 as stated: calling generate() again on the same layout with the same
\* builder configuration returns the same output, whenever it is called.
C16_Original ==
    Regenerated => last.output = last.previous[1].output

\* C16: without a template, calling generate() again on the same layout with
\* the same builder configuration returns the same output as long as the
\* clock shows the same calendar year at both calls.
C16_SameYearSameOutput ==
    /\ Regenerated
    /\ builder.template_path = None
    /\ last.at.year = last.previous[1].at.year
    => last.output = last.previous[1].output

\* generate() with headers returned the same output at a later instant of
\* the same year
C16_Witness ==
    /\ Regenerated
    /\ builder.template_path = None
    /\ builder.include_headers
    /\ last.at.year = last.previous[1].at.year
    /\ last.at.instant > last.previous[1].at.instant
    /\ last.output = last.previous[1].output

\* generate() returned the keymap it assembled without a template
GeneratedDirect ==
    /\ last.op = "generate"
    /\ last.result = OK
    /\ builder.template_path = None

\* a text without its line breaks
Strip(text) == SelectSeq(text, LAMBDA piece : piece # NL)

\* a fragment the way the keymap shows it: as it is, or inside a root node
Shown(text, wrapped) ==
    IF text = << >>
    THEN << >>
    ELSE IF wrapped THEN <<"/ {">> \o Strip(text) \o <<"};">> ELSE Strip(text)

\* the fragments of the call just made, in the fixed order
FragmentsInOrder ==
    LET context == build_context(builder, CurrentData, profile, last.at)
    IN  (IF builder.include_headers
         THEN Strip(Join(SubSeq(license_banner(last.at), 1, 4)))
                  \o Shown(context["resolved_includes"], FALSE)
         ELSE << >>)
        \o Shown(context["key_position_header"], FALSE)
        \o Shown(context["layer_defines"], FALSE)
        \o Shown(context["custom_defined_behaviors"], FALSE)
        \o Shown(context["user_behaviors_dtsi"], TRUE)
        \o Shown(context["user_tap_dances_dtsi"], TRUE)
        \o Shown(context["combos_dtsi"], FALSE)
        \o Shown(context["user_macros_dtsi"], FALSE)
        \o Shown(context["system_behaviors_dts"], FALSE)
        \o Shown(context["custom_devicetree"], FALSE)
        \o Shown(context["keymap_node"], TRUE)

\* no two blank lines in a row, none at the start and none at the end
NoBlankSection(text) ==
    /\ text # << >> => text[1] # NL /\ text[Len(text)] # NL
    /\ \A i \in 1..(Len(text) - 2) :
          ~(text[i] = NL /\ text[i + 1] = NL /\ text[i + 2] = NL)

Contains(text, piece) == \E i \in 1..Len(text) : text[i] = piece

\* C18: after with_headers(False) the generated keymap contains no license
\* banner, no #include list and no key-position header block.
C18_NoHeaderBlockWithoutHeaders ==
    GeneratedDirect /\ ~builder.include_headers
        => /\ ~Contains(last.output, " * Copyright (c) ")
           /\ ~Contains(last.output, "#include <")
           /\ \A i \in 1..Len(profile.key_position_header) :
                 ~Contains(last.output, profile.key_position_header[i])

----------------------------------------------------------------------------
(* utils/json_operations.py: JSON text and the values json.loads gives *)

(* A str is a sequence of pieces, as in the KeymapBuilder above; the       *)
(* placeholder {{v}} is the three pieces "{{", "v", "}}".  A JSON text is  *)
(* the sequence of its tokens: whitespace (indent) is not kept.            *)

\* the values json.loads returns and json.dumps takes
JStr(s) == [kind |-> "str", s |-> s, items |-> << >>, entries |-> << >>]
JList(items) == [kind |-> "list", s |-> << >>, items |-> items, entries |-> << >>]
JDict(entries) == [kind |-> "dict", s |-> << >>, items |-> << >>, entries |-> entries]

\* one key of a dict with its value
Entry(key, value) == [key |-> key, value |-> value]

\* the tokens of a JSON text
Punct(c) == [t |-> "punct", v |-> <<c>>]
StringToken(s) == [t |-> "string", v |-> s]

\* key in d
HasKey(entries, key) == \E i \in 1..Len(entries) : entries[i].key = key

\* d[key]
Get(entries, key) ==
    entries[CHOOSE i \in 1..Len(entries) : entries[i].key = key].value

\* d[key] = value: a key json.loads meets again keeps its place and takes the new value
Put(entries, key, value) ==
    IF HasKey(entries, key)
    THEN [i \in 1..Len(entries) |->
             IF entries[i].key = key THEN Entry(key, value) ELSE entries[i]]
    ELSE Append(entries, Entry(key, value))

RECURSIVE json_dumps(_)
RECURSIVE dumps_items(_, _)
RECURSIVE dumps_entries(_, _)

\* the items of a list from the k-th on, separated by commas
dumps_items(items, k) ==
    IF k > Len(items) THEN << >>
    ELSE (IF k > 1 THEN <<Punct(",")>> ELSE << >>)
         \o json_dumps(items[k]) \o dumps_items(items, k + 1)

\* the entries of a dict from the k-th on, separated by commas
dumps_entries(entries, k) ==
    IF k > Len(entries) THEN << >>
    ELSE (IF k > 1 THEN <<Punct(",")>> ELSE << >>)
         \o <<StringToken(entries[k].key), Punct(":")>>
         \o json_dumps(entries[k].value) \o dumps_entries(entries, k + 1)

\* json.dumps(value)
json_dumps(value) ==
    CASE value.kind = "str" -> <<StringToken(value.s)>>
      [] value.kind = "list" ->
            <<Punct("[")>> \o dumps_items(value.items, 1) \o <<Punct("]")>>
      [] value.kind = "dict" ->
            <<Punct("{")>> \o dumps_entries(value.entries, 1) \o <<Punct("}")>>

\* a value could not be read
NoParse == [ok |-> FALSE, value |-> JStr(<< >>), next |-> 0]

Parsed(value, next) == [ok |-> TRUE, value |-> value, next |-> next]

IsToken(toks, i, tok) == i <= Len(toks) /\ toks[i] = tok

RECURSIVE parse_value(_, _)
RECURSIVE parse_items(_, _, _)
RECURSIVE parse_entries(_, _, _)

\* the items of a list, the i-th token being the first token of an item
parse_items(toks, i, acc) ==
    LET item == parse_value(toks, i)
    IN  IF ~item.ok THEN NoParse
        ELSE IF IsToken(toks, item.next, Punct(","))
        THEN parse_items(toks, item.next + 1, Append(acc, item.value))
        ELSE IF IsToken(toks, item.next, Punct("]"))
        THEN Parsed(JList(Append(acc, item.value)), item.next + 1)
        ELSE NoParse

\* the entries of a dict, the i-th token being the key of an entry
parse_entries(toks, i, acc) ==
    IF ~(i <= Len(toks) /\ toks[i].t = "string" /\ IsToken(toks, i + 1, Punct(":")))
    THEN NoParse
    ELSE LET value == parse_value(toks, i + 2)
         IN  IF ~value.ok THEN NoParse
             ELSE IF IsToken(toks, value.next, Punct(","))
             THEN parse_entries(toks, value.next + 1, Put(acc, toks[i].v, value.value))
             ELSE IF IsToken(toks, value.next, Punct("}"))
             THEN Parsed(JDict(Put(acc, toks[i].v, value.value)), value.next + 1)
             ELSE NoParse

\* the value that starts at the i-th token
parse_value(toks, i) ==
    IF i > Len(toks) THEN NoParse
    ELSE IF toks[i].t = "string" THEN Parsed(JStr(toks[i].v), i + 1)
    ELSE IF toks[i] = Punct("[")
    THEN IF IsToken(toks, i + 1, Punct("]")) THEN Parsed(JList(<< >>), i + 2)
         ELSE parse_items(toks, i + 1, << >>)
    ELSE IF toks[i] = Punct("{")
    THEN IF IsToken(toks, i + 1, Punct("}")) THEN Parsed(JDict(<< >>), i + 2)
         ELSE parse_entries(toks, i + 1, << >>)
    ELSE NoParse

JSONDecodeError == "JSONDecodeError"
ValueError == "ValueError"

\* json.loads(text): the value, or JSONDecodeError
json_loads(text) ==
    LET r == parse_value(text, 1)
    IN  IF r.ok /\ r.next = Len(text) + 1
        THEN [result |-> OK, value |-> r.value]
        ELSE [result |-> JSONDecodeError, value |-> JStr(<< >>)]

----------------------------------------------------------------------------
(* LayoutData as utils/json_operations.py uses it: model_dump and          *)
(* model_validate with field aliases, unset fields and template variables  *)

\* the fields of a LayoutData, in the order they are dumped
Fields == <<"keyboard", "title", "layer_names", "hold_taps", "variables">>

FieldSet == {Fields[k] : k \in 1..Len(Fields)}

\* the fields a document must give
RequiredFields == {"keyboard", "title"}

\* a field's own name, and its alias on the wire
Name(f) == <<f>>

Alias(f) == IF f = "hold_taps" THEN <<"holdTaps">> ELSE <<f>>

\* LayoutData(...): the values of its fields, the keys it does not know and the fields given
LayoutDataOf(kbd, title, lnames, hts, variables, extra, fields_set) ==
    [keyboard |-> kbd, title |-> title, layer_names |-> lnames, hold_taps |-> hts,
     variables |-> variables, extra |-> extra, fields_set |-> fields_set]

\* a list of str, and a dict of str, as JSON values
StrList(list) == JList([k \in 1..Len(list) |-> JStr(list[k])])

StrDict(entries) ==
    JDict([k \in 1..Len(entries) |-> Entry(entries[k].key, JStr(entries[k].value))])

\* the JSON value of a field
FieldValue(L, f) ==
    CASE f = "keyboard" -> JStr(L.keyboard)
      [] f = "title" -> JStr(L.title)
      [] f = "layer_names" -> StrList(L.layer_names)
      [] f = "hold_taps" -> StrList(L.hold_taps)
      [] f = "variables" -> StrDict(L.variables)

RECURSIVE dump_fields(_, _, _, _)

\* the entries of the fields from the k-th on
dump_fields(L, k, by_alias, exclude_unset) ==
    IF k > Len(Fields) THEN << >>
    ELSE (IF exclude_unset /\ Fields[k] \notin L.fields_set THEN << >>
          ELSE <<Entry(IF by_alias THEN Alias(Fields[k]) ELSE Name(Fields[k]),
                       FieldValue(L, Fields[k]))>>)
         \o dump_fields(L, k + 1, by_alias, exclude_unset)

\* layout_data.model_dump(by_alias=..., exclude_unset=..., mode="json")
model_dump(L, by_alias, exclude_unset) ==
    JDict(dump_fields(L, 1, by_alias, exclude_unset) \o L.extra)

\* a str that is one {{name}} placeholder
IsPlaceholder(s) == Len(s) = 3 /\ s[1] = "{{" /\ s[3] = "}}"

\* a str with the variable it names put in its place
resolve_str(s, variables) ==
    IF IsPlaceholder(s) /\ HasKey(variables, <<s[2]>>)
       /\ Get(variables, <<s[2]>>).kind = "str"
    THEN Get(variables, <<s[2]>>).s
    ELSE s

RECURSIVE resolve_value(_, _)

\* a value with the variables put in place in every str it holds
resolve_value(value, variables) ==
    CASE value.kind = "str" -> JStr(resolve_str(value.s, variables))
      [] value.kind = "list" ->
            JList([k \in 1..Len(value.items) |-> resolve_value(value.items[k], variables)])
      [] value.kind = "dict" ->
            JDict([k \in 1..Len(value.entries) |->
                      Entry(value.entries[k].key,
                            resolve_value(value.entries[k].value, variables))])

\* the template-variable substitution of a load: the document's own variables are
\* put in place everywhere but in the variables themselves
resolve_variables(entries) ==
    IF HasKey(entries, <<"variables">>) /\ Get(entries, <<"variables">>).kind = "dict"
    THEN LET variables == Get(entries, <<"variables">>).entries
         IN  [k \in 1..Len(entries) |->
                 IF entries[k].key = <<"variables">> THEN entries[k]
                 ELSE Entry(entries[k].key, resolve_value(entries[k].value, variables))]
    ELSE entries

\* a document gives a field under its alias or under its name
Given(entries, f) == HasKey(entries, Alias(f)) \/ HasKey(entries, Name(f))

Raw(entries, f) ==
    IF HasKey(entries, Alias(f)) THEN Get(entries, Alias(f)) ELSE Get(entries, Name(f))

IsStrList(value) ==
    value.kind = "list" /\ \A k \in 1..Len(value.items) : value.items[k].kind = "str"

IsStrDict(value) ==
    value.kind = "dict" /\ \A k \in 1..Len(value.entries) : value.entries[k].value.kind = "str"

\* the schema of a field
WellTyped(f, value) ==
    CASE f \in {"keyboard", "title"} -> value.kind = "str"
      [] f \in {"layer_names", "hold_taps"} -> IsStrList(value)
      [] f = "variables" -> IsStrDict(value)

Strs(value) == [k \in 1..Len(value.items) |-> value.items[k].s]

StrEntries(value) ==
    [k \in 1..Len(value.entries) |-> [key |-> value.entries[k].key,
                                     value |-> value.entries[k].value.s]]

IsFieldKey(key) == \E f \in FieldSet : key = Alias(f) \/ key = Name(f)

RECURSIVE UnknownEntries(_, _)

\* the entries of keys that are no field, from the k-th on
UnknownEntries(entries, k) ==
    IF k > Len(entries) THEN << >>
    ELSE (IF IsFieldKey(entries[k].key) THEN << >> ELSE <<entries[k]>>)
         \o UnknownEntries(entries, k + 1)

NoLayoutData == LayoutDataOf(<< >>, << >>, << >>, << >>, << >>, << >>, {})

\* LayoutData.model_validate(parsed_data), reading the module's flag
model_validate(parsed_data, skip) ==
    IF parsed_data.kind # "dict" THEN [ok |-> FALSE, value |-> NoLayoutData]
    ELSE LET entries == IF skip THEN parsed_data.entries
                        ELSE resolve_variables(parsed_data.entries)
             given == {f \in FieldSet : Given(entries, f)}
         IN  IF /\ RequiredFields \subseteq given
                /\ \A f \in given : WellTyped(f, Raw(entries, f))
             THEN [ok |-> TRUE,
                   value |-> LayoutDataOf(
                       Raw(entries, "keyboard").s,
                       Raw(entries, "title").s,
                       IF "layer_names" \in given THEN Strs(Raw(entries, "layer_names"))
                       ELSE << >>,
                       IF "hold_taps" \in given THEN Strs(Raw(entries, "hold_taps"))
                       ELSE << >>,
                       IF "variables" \in given THEN StrEntries(Raw(entries, "variables"))
                       ELSE << >>,
                       UnknownEntries(entries, 1),
                       given)]
             ELSE [ok |-> FALSE, value |-> NoLayoutData]

----------------------------------------------------------------------------
(* utils/json_operations.py *)

\* VariableResolutionContext.__enter__: the context's old_value and the flag
enter(skip, flag) == [old_value |-> Some(flag), flag |-> skip]

\* __exit__ putting the module's first value back, not the context's old_value
exit_resetting(old_value, flag) == FALSE

\* VariableResolutionContext.__exit__: the flag
exit(old_value, flag) == IF old_value # None THEN old_value[1] ELSE flag

\* should_skip_variable_resolution()
should_skip_variable_resolution(flag) == flag

\* what the caller passes as data: a str or a dict
Document(text) == [is_str |-> TRUE, text |-> text, value |-> JStr(<< >>)]

Dictionary(value) == [is_str |-> FALSE, text |-> << >>, value |-> value]

\* parse_layout_data with the flag restored only when the validation returns
parse_layout_data_restoring_on_return(data, skip_variable_resolution, flag) ==
    LET loaded == IF data.is_str THEN json_loads(data.text)
                  ELSE [result |-> OK, value |-> data.value]
    IN  IF loaded.result # OK
        THEN [result |-> JSONDecodeError, value |-> NoLayoutData, during |-> flag,
              flag |-> flag]
        ELSE LET old_skip_value == flag
                 set == skip_variable_resolution
                 validated == model_validate(loaded.value,
                                             should_skip_variable_resolution(set))
             IN  IF validated.ok
                 THEN [result |-> OK, value |-> validated.value, during |-> set,
                       flag |-> old_skip_value]
                 ELSE [result |-> ValueError, value |-> NoLayoutData, during |-> set,
                       flag |-> set]

\* parse_layout_data that leaves the flag as it finds it, not as it is asked
parse_layout_data_ignoring_skip(data, skip_variable_resolution, flag) ==
    LET loaded == IF data.is_str THEN json_loads(data.text)
                  ELSE [result |-> OK, value |-> data.value]
    IN  IF loaded.result # OK
        THEN [result |-> JSONDecodeError, value |-> NoLayoutData, during |-> flag,
              flag |-> flag]
        ELSE LET old_skip_value == flag
                 validated == model_validate(loaded.value,
                                             should_skip_variable_resolution(flag))
             IN  IF validated.ok
                 THEN [result |-> OK, value |-> validated.value, during |-> flag,
                       flag |-> old_skip_value]
                 ELSE [result |-> ValueError, value |-> NoLayoutData, during |-> flag,
                       flag |-> old_skip_value]

\* parse_layout_data(data, skip_variable_resolution): the outcome, the flag while
\* LayoutData.model_validate runs, and the flag after
parse_layout_data(data, skip_variable_resolution, flag) ==
    LET loaded == IF data.is_str THEN json_loads(data.text)
                  ELSE [result |-> OK, value |-> data.value]
    IN  IF loaded.result # OK
        THEN [result |-> JSONDecodeError, value |-> NoLayoutData, during |-> flag,
              flag |-> flag]
        ELSE LET old_skip_value == flag
                 set == skip_variable_resolution
                 validated == model_validate(loaded.value,
                                             should_skip_variable_resolution(set))
             IN  IF validated.ok
                 THEN [result |-> OK, value |-> validated.value, during |-> set,
                       flag |-> old_skip_value]
                 ELSE [result |-> ValueError, value |-> NoLayoutData, during |-> set,
                       flag |-> old_skip_value]

\* serialize_layout_data(layout_data): the text and the flag after
serialize_layout_data(layout_data, flag) ==
    LET entered == enter(TRUE, flag)
        text == json_dumps(model_dump(layout_data, TRUE, TRUE))
    IN  [text |-> text, flag |-> exit(entered.old_value, entered.flag)]

----------------------------------------------------------------------------
(* The calls a program makes on utils/json_operations.py *)

\* at most this many VariableResolutionContext blocks are nested
MaxContexts == 2

Str(piece) == <<piece>>

Braced(name) == <<"{{", name, "}}">>

AllFields == {"keyboard", "title", "layer_names", "hold_taps", "variables"}

\* a LayoutData made from {"keyboard": "kb", "title": "Sample"}
L_minimal ==
    LayoutDataOf(Str("kb"), Str("Sample"), << >>, << >>, << >>, << >>, {"keyboard", "title"})

\* the same with its layers named
L_plain ==
    LayoutDataOf(Str("kb"), Str("Sample"), <<Str("base"), Str("nav")>>, << >>, << >>, << >>,
                 {"keyboard", "title", "layer_names"})

\* with hold-taps, and an empty dict of variables that was given
L_hold_taps ==
    LayoutDataOf(Str("kb"), Str("Sample"), <<Str("base")>>, <<Str("&hm_l"), Str("&hm_r")>>,
                 << >>, << >>, AllFields)

\* a title left as a placeholder, without variables
L_placeholder ==
    LayoutDataOf(Str("kb"), Braced("name"), << >>, << >>, << >>, << >>, {"keyboard", "title"})

\* variables, and no placeholder to put them in
L_variables ==
    LayoutDataOf(Str("kb"), Str("Sample"), <<Str("base")>>, << >>,
                 <<[key |-> Str("name"), value |-> Str("Rendered")]>>, << >>,
                 {"keyboard", "title", "layer_names", "variables"})

\* a layout loaded with its placeholders kept: a title and a layer name to be resolved
L_template ==
    LayoutDataOf(Str("kb"), Braced("name"), <<Str("base"), Braced("layer")>>, << >>,
                 <<[key |-> Str("name"), value |-> Str("Rendered")],
                   [key |-> Str("layer"), value |-> Str("nav")]>>,
                 << >>, {"keyboard", "title", "layer_names", "variables"})

\* a key LayoutData does not know
L_extra ==
    LayoutDataOf(Str("kb"), Str("Sample"), << >>, <<Str("&hm_l")>>, << >>,
                 <<Entry(Str("layers"), JList(<< >>)), Entry(Str("notes"), JStr(Braced("name")))>>,
                 {"keyboard", "title", "hold_taps"})

LayoutDatas ==
    {L_minimal, L_plain, L_hold_taps, L_placeholder, L_variables, L_template, L_extra}

\* what tests give parse_layout_data
D_valid ==
    JDict(<<Entry(Str("keyboard"), JStr(Str("kb"))), Entry(Str("title"), JStr(Str("Sample"))),
            Entry(Str("layers"), JList(<< >>)), Entry(Str("layer_names"), JList(<< >>))>>)

D_invalid == JDict(<<Entry(Str("invalid"), JStr(Str("data")))>>)

\* hold-taps under the field's name, variables and a placeholder
D_by_name ==
    JDict(<<Entry(Str("keyboard"), JStr(Str("kb"))), Entry(Str("title"), JStr(Braced("name"))),
            Entry(Str("hold_taps"), JList(<<JStr(Str("&hm_l"))>>)),
            Entry(Str("variables"), JDict(<<Entry(Str("name"), JStr(Str("Rendered")))>>))>>)

\* a title that is no str
D_mistyped ==
    JDict(<<Entry(Str("keyboard"), JStr(Str("kb"))), Entry(Str("title"), JList(<< >>))>>)

\* "{ invalid json }"
T_invalid == <<Punct("{"), StringToken(Str("invalid json")), Punct("}")>>

JsonInputs ==
    { Document(json_dumps(D_valid)), Dictionary(D_valid),
      Document(json_dumps(D_invalid)), Dictionary(D_mistyped),
      Document(json_dumps(D_by_name)), Document(json_dumps(JList(<< >>))),
      Document(T_invalid), Document(<< >>) }

\* what utils/json_operations.py leaves alone
json_frame ==
    <<layer_names, layers, combos, has_combos, hold_taps, proxy, pipes, emit_vars, more_vars>>

\* the record of a parse_layout_data call; round_trip is the LayoutData whose
\* serialized text was parsed, if it was one
Parses(data, skip, round_trip) ==
    LET r == parse_layout_data(data, skip, global_skip_variable_resolution)
    IN  /\ global_skip_variable_resolution' = r.flag
        /\ last' = [op |-> "parse_layout_data", data |-> data, skip |-> skip,
                    flag_before |-> global_skip_variable_resolution,
                    flag_during |-> r.during,
                    in_block |-> IF contexts = << >> THEN None
                                 ELSE Some(Head(contexts).skip),
                    result |-> r.result, value |-> r.value, round_trip |-> round_trip]
        /\ UNCHANGED <<contexts, wire, json_frame>>

\* parse_layout_data(data, skip_variable_resolution=skip)
ParseInput(data, skip) == Parses(data, skip, None)

\* parse_layout_data(serialize_layout_data(L), skip_variable_resolution=skip)
ParseWire(skip) ==
    /\ wire # None
    /\ Parses(Document(wire[1].text), skip, Some(wire[1].layout_data))

\* serialize_layout_data(L)
Serialize(L) ==
    LET r == serialize_layout_data(L, global_skip_variable_resolution)
    IN  /\ global_skip_variable_resolution' = r.flag
        /\ wire' = Some([layout_data |-> L, text |-> r.text])
        /\ last' = [op |-> "serialize_layout_data",
                    flag_before |-> global_skip_variable_resolution]
        /\ UNCHANGED <<contexts, json_frame>>

\* with VariableResolutionContext(skip=skip):
Enter(skip) ==
    /\ Len(contexts) < MaxContexts
    /\ LET r == enter(skip, global_skip_variable_resolution)
       IN  /\ global_skip_variable_resolution' = r.flag
           /\ contexts' = <<[skip |-> skip, old_value |-> r.old_value,
                              entered_with |-> global_skip_variable_resolution]>>
                            \o contexts
    /\ last' = [op |-> "enter", flag_before |-> global_skip_variable_resolution]
    /\ UNCHANGED <<wire, json_frame>>

\* the end of the innermost with block, reached normally or by an exception
\* raised in the block: __exit__ does not read its arguments and returns None
Exit(raised) ==
    /\ contexts # << >>
    /\ global_skip_variable_resolution' =
           exit(Head(contexts).old_value, global_skip_variable_resolution)
    /\ contexts' = Tail(contexts)
    /\ last' = [op |-> "exit", flag_before |-> global_skip_variable_resolution,
                raised |-> raised, left |-> Head(contexts)]
    /\ UNCHANGED <<wire, json_frame>>

InitJson ==
    /\ layer_names = << >>
    /\ layers = << >>
    /\ combos = << >>
    /\ has_combos = FALSE
    /\ hold_taps = {}
    /\ proxy = None
    /\ pipes = << >>
    /\ NoBuilder
    /\ NoJson
    /\ NoMore
    /\ last = NoCall

NextJson ==
    \/ \E L \in LayoutDatas : Serialize(L)
    \/ \E skip \in BOOLEAN : ParseWire(skip)
    \/ \E data \in JsonInputs, skip \in BOOLEAN : ParseInput(data, skip)
    \/ \E skip \in BOOLEAN : Enter(skip)
    \/ \E raised \in BOOLEAN : Exit(raised)

SpecJson == InitJson /\ [][NextJson]_vars

----------------------------------------------------------------------------
(* Claims about utils/json_operations.py *)

\* parse_layout_data returned or raised
ParseCalled == last.op = "parse_layout_data"

\* C20: after parse_layout_data returns or raises, whatever its
\* skip_variable_resolution argument, the module's flag (what
\* should_skip_variable_resolution() returns) is what it was right before the call.
C20_FlagRestored ==
    ParseCalled =>
        should_skip_variable_resolution(global_skip_variable_resolution) = last.flag_before

\* parse_layout_data raised from the validation while asked for the other value of the flag
C20_Witness ==
    /\ ParseCalled
    /\ last.result = ValueError
    /\ last.skip # last.flag_before
    /\ global_skip_variable_resolution = last.flag_before

\* parse_layout_data was given the text serialize_layout_data made of a LayoutData
RoundTripped == ParseCalled /\ last.round_trip # None

\* C19 as stated: for every valid LayoutData L,
\* parse_layout_data(serialize_layout_data(L)), called as written, with the default
\* skip_variable_resolution=False, returns a LayoutData equal to L.
C19_RoundTripIdentity ==
    RoundTripped /\ ~last.skip =>
        last.result = OK /\ last.value = last.round_trip[1]

\* C19, amended: parse_layout_data(serialize_layout_data(L), skip_variable_resolution=True)
\* returns a LayoutData equal to L for every valid L; with the default
\* skip_variable_resolution=False it does when L has no variables.
C19_RoundTripKeepingPlaceholders ==
    RoundTripped /\ (last.skip \/ last.round_trip[1].variables = << >>) =>
        last.result = OK /\ last.value = last.round_trip[1]

\* a layout with variables and placeholders came back as it was, with unset
\* fields still unset
C19_Witness ==
    /\ RoundTripped
    /\ last.skip
    /\ last.round_trip[1] = L_template
    /\ last.value = L_template
    /\ "hold_taps" \notin last.value.fields_set

\* C21: with properly nested VariableResolutionContext blocks, the flag is the skip
\* value of the innermost active block; when a block is left, normally or through
\* an exception, the flag is what it was when that block was entered; and outside
\* every block it is the original value.
C21_NestedContexts ==
    /\ contexts # << >> => global_skip_variable_resolution = Head(contexts).skip
    /\ last.op = "exit" => global_skip_variable_resolution = last.left.entered_with
    /\ contexts = << >> => global_skip_variable_resolution = FALSE

\* an inner block with the other skip value was left through an exception, inside
\* an outer block that is still active
C21_Witness ==
    /\ last.op = "exit"
    /\ last.raised
    /\ contexts # << >>
    /\ last.left.skip # Head(contexts).skip
    /\ Head(contexts).skip
    /\ global_skip_variable_resolution

\* C29: while a VariableResolutionContext(skip=True) block is the active one,
\* should_skip_variable_resolution() is true at every point inside it: between the
\* calls made in the block, and while a parse_layout_data call made in the block
\* with the default skip_variable_resolution argument validates its data.
C29_SkipHoldsInsideBlock ==
    /\ (contexts # << >> /\ Head(contexts).skip) =>
           should_skip_variable_resolution(global_skip_variable_resolution)
    /\ (ParseCalled /\ last.in_block = Some(TRUE) /\ ~last.skip) =>
           should_skip_variable_resolution(last.flag_during)

----------------------------------------------------------------------------
(* Claims about the custom context of a KeymapBuilder *)

\* the builder as it would be had with_context never been called
WithoutContext(b) == [b EXCEPT !.template_context = {}]

\* C30: without a template, the output of generate() does not depend on the
\* variables added through with_context: it is the output the same builder gives
\* without them, so a custom key replaces no generated fragment.
C30_ContextLeavesDirectOutput ==
    GeneratedDirect =>
        last.output = generate(WithoutContext(builder), CurrentData, profile, last.at).output

----------------------------------------------------------------------------
(* core/layout.py: Layout.validate *)

\* Layout.validate(): self, or the ValueError it raises
validate(kbd, lnames, lys) ==
    IF kbd = << >>
    THEN [result |-> ValueError, message |-> "Keyboard name is required"]
    ELSE IF Len(lys) # Len(lnames)
    THEN [result |-> ValueError,
          message |-> "Layer count mismatch between layers and layer_names"]
    ELSE [result |-> OK, message |-> ""]

\* LayoutData(keyboard=..., layers=..., layer_names=...) as callers and tests build it:
\* any keyboard name, any list of names, any number of layers
LayoutInputs ==
    [keyboard : {<< >>, <<"test">>},
     layer_names : NameLists,
     layers : {<< >>, << <<B_kp_A>> >>, << <<B_kp_A>>, <<B_kp_B>> >>}]

\* layout.validate()
Validate ==
    LET r == validate(keyboard, layer_names, layers)
    IN  /\ last' = [op |-> "validate", result |-> r.result, message |-> r.message]
        /\ UNCHANGED <<layer_names, layers, combos, has_combos, hold_taps, proxy, pipes,
                       emit_vars, json_vars, more_vars>>

InitLayout ==
    /\ \E l \in LayoutInputs :
          /\ keyboard = l.keyboard
          /\ layer_names = l.layer_names
          /\ layers = l.layers
    /\ combos = << >>
    /\ has_combos = FALSE
    /\ hold_taps = {}
    /\ proxy = None
    /\ pipes = << >>
    /\ NoBuilder
    /\ NoJson
    /\ config_parameters = << >>
    /\ config_builder = None
    /\ cells = << >>
    /\ layer_objects = << >>
    /\ last = NoCall

NextLayout == Validate

SpecLayout == InitLayout /\ [][NextLayout]_vars

\* a name is twice in the list
HasDuplicate(list) == \E i, j \in 1..Len(list) : i # j /\ list[i] = list[j]

\* C22: Layout.validate() raises when layer_names contains a duplicate name, and
\* returns the layout only when the keyboard name is not empty,
\* len(layers) = len(layer_names) and the layer names are unique.
C22_ValidateRejectsDuplicates ==
    last.op = "validate" =>
        /\ HasDuplicate(layer_names) => last.result # OK
        /\ last.result = OK =>
              /\ keyboard # << >>
              /\ Len(layers) = Len(layer_names)
              /\ ~HasDuplicate(layer_names)

----------------------------------------------------------------------------
(* generators/keymap_generator.py: ConfigBuilder *)

\* ConfigParameter(paramName=..., value=...)
ConfigParameter(param_name, value) == [param_name |-> param_name, value |-> value]

\* ConfigBuilder.__init__
NewConfigBuilder == [kconfig_options |-> << >>, use_defaults |-> TRUE, zmk_generator |-> FALSE]

\* ConfigBuilder.with_options(name=value): dict.update keeps the place of a key it has
with_options(b, name, value) ==
    [b EXCEPT !.kconfig_options =
        IF \E k \in 1..Len(@) : @[k].key = name
        THEN [k \in 1..Len(@) |-> IF @[k].key = name THEN [key |-> name, value |-> value]
                                  ELSE @[k]]
        ELSE Append(@, [key |-> name, value |-> value])]

\* ConfigBuilder.with_defaults(use)
with_defaults(b, use) == [b EXCEPT !.use_defaults = use]

RECURSIVE merge_options(_, _, _)

\* the loop over self._kconfig_options.items(), from the k-th option on: the value
\* of the first parameter of that name is assigned, or a parameter is appended
merge_options(config_params, options, k) ==
    IF k > Len(options) THEN config_params
    ELSE LET named == { i \in 1..Len(config_params) :
                           config_params[i].param_name = options[k].key }
             first == CHOOSE i \in named : \A j \in named : i <= j
         IN  merge_options(
                 IF named # {}
                 THEN [config_params EXCEPT ![first].value = options[k].value]
                 ELSE Append(config_params, ConfigParameter(options[k].key, options[k].value)),
                 options, k + 1)

\* ZMKGenerator.generate_kconfig_conf(layout_data, profile): the content, one line
\* for each parameter, and the settings
generate_kconfig_conf(params, prof) ==
    [content |-> [k \in 1..Len(params) |->
                     <<"CONFIG_ZMK_", params[k].param_name, "=", params[k].value>>],
     settings |-> { <<params[k].param_name, params[k].value>> : k \in 1..Len(params) }]

(* ConfigBuilder.generate().  list(layout_data.config_parameters) is a new list of  *)
(* the same ConfigParameter objects, so an assignment to param.value is seen         *)
(* through the layout's list as well; a parameter appended is in the new list only.  *)
(* layout_params is the layout's list after the call.                                *)
ConfigBuilder_generate(b, params, prof) ==
    LET config_params == IF b.kconfig_options # << >>
                         THEN merge_options(params, b.kconfig_options, 1)
                         ELSE params
        made == generate_kconfig_conf(config_params, prof)
    IN  [builder |-> [b EXCEPT !.zmk_generator = TRUE],
         layout_params |-> SubSeq(config_params, 1, Len(params)),
         content |-> made.content,
         settings |-> made.settings]

\* the config parameters of the layouts exported
ConfigInputs ==
    { << >>,
      <<ConfigParameter("IDLE_TIMEOUT", "30000")>>,
      <<ConfigParameter("IDLE_TIMEOUT", "30000"), ConfigParameter("SLEEP", "y")>> }

\* the options with_options is called with
OptionArgs ==
    [key : {"IDLE_TIMEOUT", "SLEEP", "COMBO_MAX"}, value : {"60000", "n"}]

config_frame ==
    <<layer_names, layers, combos, has_combos, hold_taps, proxy, pipes, emit_vars, json_vars,
      keyboard, cells, layer_objects>>

\* builder.with_options(name=value)
WithOptions(name, value) ==
    /\ config_builder' = with_options(config_builder, name, value)
    /\ last' = Configured
    /\ UNCHANGED <<config_parameters, config_frame>>

\* builder.with_defaults(use)
WithDefaults(use) ==
    /\ config_builder' = with_defaults(config_builder, use)
    /\ last' = Configured
    /\ UNCHANGED <<config_parameters, config_frame>>

\* builder.generate()
ConfigGenerate ==
    LET r == ConfigBuilder_generate(config_builder, config_parameters, DefaultProfile)
    IN  /\ config_builder' = r.builder
        /\ config_parameters' = r.layout_params
        /\ last' = [op |-> "config_generate", result |-> OK, before |-> config_parameters,
                    content |-> r.content, settings |-> r.settings]
        /\ UNCHANGED config_frame

\* layout.export.config()
InitConfig ==
    /\ layer_names = << >>
    /\ layers = << >>
    /\ combos = << >>
    /\ has_combos = FALSE
    /\ hold_taps = {}
    /\ proxy = None
    /\ pipes = << >>
    /\ NoBuilder
    /\ NoJson
    /\ keyboard = <<"kb">>
    /\ config_parameters \in ConfigInputs
    /\ config_builder = NewConfigBuilder
    /\ cells = << >>
    /\ layer_objects = << >>
    /\ last = NoCall

NextConfig ==
    \/ \E option \in OptionArgs : WithOptions(option.key, option.value)
    \/ \E use \in BOOLEAN : WithDefaults(use)
    \/ ConfigGenerate

SpecConfig == InitConfig /\ [][NextConfig]_vars

\* C28: ConfigBuilder.generate() does not modify the layout it was built from: a
\* parameter of layout.data.config_parameters that with_options names has the same
\* value after generate() as before it, like every other parameter of the layout.
C28_GenerateLeavesLayout ==
    last.op = "config_generate" => config_parameters = last.before

----------------------------------------------------------------------------
(* Claims about what the LayerManager's calls keep *)

\* the layers of a layout: each name with its bindings
LayerSet(lnames, lys) == { <<lnames[i], lys[i]>> : i \in 1..Len(lnames) }

\* a list without the name
Without(list, name) == SelectSeq(list, LAMBDA x : x # name)

\* C25: after a successful move(name, position), which needs
\* 0 <= position < count, layer_names[position] is the name, the set of layers
\* (names with their bindings) is what it was, and the other layers are in the
\* relative order they had.
C25_MovePlacesLayer ==
    [][(last'.op = "move" /\ last'.result = OK) =>
          /\ last'.pos[1] >= 0 /\ last'.pos[1] < Len(layer_names)
          /\ layer_names'[last'.pos[1] + 1] = last'.name
          /\ LayerSet(layer_names', layers') = LayerSet(layer_names, layers)
          /\ Len(layer_names') = Len(layer_names)
          /\ Without(layer_names', last'.name) = Without(layer_names, last'.name)]_vars

\* the first of three layers was moved to the end
C25_Witness ==
    /\ last.op = "move"
    /\ last.result = OK
    /\ last.pos = Some(2)
    /\ Len(layer_names) = 3
    /\ layer_names[3] = last.name
    /\ layer_names[1] = S_func
    /\ layers[1] = <<B_trans, B_mo_1>>

\* the calls that create, delete, place or name a layer
StructuralCalls == {"add", "remove", "move", "rename", "copy"}

\* the name a layer has after the call
NameAfter(call, name) ==
    IF call.op = "rename" /\ call.name = name THEN call.other ELSE name

\* C27: a successful add, remove, move, rename or copy changes the bindings of no
\* layer that exists before and after it (a renamed layer being the same layer):
\* each such layer is found under its name with the binding sequence it had.
C27_CallsKeepBindings ==
    [][(last'.op \in StructuralCalls /\ last'.result = OK) =>
          \A i \in 1..Len(layer_names) :
              \/ last'.op = "remove" /\ layer_names[i] = last'.name
              \/ \E j \in 1..Len(layer_names') :
                    /\ layer_names'[j] = NameAfter(last', layer_names[i])
                    /\ j <= Len(layers')
                    /\ layers'[j] = layers[i]]_vars

\* a layer was renamed while the layout held layers of different bindings
C27_Witness ==
    /\ last.op = "rename"
    /\ last.result = OK
    /\ Len(layer_names) >= 2
    /\ \E j \in 1..Len(layer_names) :
          /\ layer_names[j] = last.other
          /\ layers[j] # << >>
    /\ \E i, j \in 1..Len(layers) : layers[i] # layers[j]

----------------------------------------------------------------------------
(* Edits of a layer in place: LayerManager.clear and LayerProxy.set, on a   *)
(* layout whose lists of bindings are tracked as objects.  layer_objects[i]  *)
(* names the list object layers[i] is; an edit of a list in place is seen at *)
(* every position that holds the same object.                                *)

\* the positions set() is called with go up to this index
MaxIndex == 3

B_none == Binding(<<"&", "n", "o", "n", "e">>, << >>)
B_kp_Z == Binding(V_kp, <<PStr(<<"Z">>)>>)

\* an object that is none of the given ones
NewObject(objects) ==
    1 + (CHOOSE m \in {0} \cup {objects[i] : i \in 1..Len(objects)} :
            \A i \in 1..Len(objects) : objects[i] <= m)

\* copy appending the source's own list of bindings
copy_objects_sharing(objects, source_index) == Append(objects, objects[source_index + 1])

\* the list objects after copy(): copied_layer is a list made by the call
copy_objects(objects, source_index) == Append(objects, NewObject(objects))

\* the layers after the list at the index was edited in place into the bindings
Written(lys, objects, index, bindings) ==
    [i \in 1..Len(lys) |-> IF objects[i] = objects[index + 1] THEN bindings ELSE lys[i]]

\* LayerProxy.set(index, binding) on the proxy of the layer: the list is extended
\* with &none up to the index, then the binding is put at the index
proxy_set(data, name, index, binding) ==
    IF ~In(name, data.layer_names)
    THEN Ret(data, NotFound)
    ELSE LET at == Index(data.layer_names, name)
             bindings == data.layers[at + 1]
             extended == bindings
                         \o [k \in 1..(index + 1 - Len(bindings)) |-> B_none]
         IN  Ret(Data(data.layer_names,
                      SetAt(data.layers, at, [extended EXCEPT ![index + 1] = binding])),
                 OK)

proxy_frame ==
    <<combos, has_combos, hold_taps, proxy, pipes, emit_vars, json_vars, keyboard,
      config_parameters, config_builder, cells>>

\* layers.copy(source_name, target_name)
CopyObjects(source_name, target_name) ==
    LET r == copy(Current, source_name, target_name)
    IN  /\ Bounded(r)
        /\ Becomes(r)
        /\ layer_objects' = IF Raised(r.result) THEN layer_objects
                            ELSE copy_objects(layer_objects,
                                              Index(layer_names, source_name))
        /\ last' = Call("copy", source_name, target_name, None, << >>, r.result)
        /\ UNCHANGED proxy_frame

\* the list of the layer is edited in place into what the call made of it
Edits(op, name, pos, r) ==
    /\ layer_names' = r.data.layer_names
    /\ layers' = IF Raised(r.result) THEN layers
                 ELSE LET at == Index(layer_names, name)
                      IN  Written(layers, layer_objects, at, r.data.layers[at + 1])
    /\ last' = Call(op, name, << >>, pos, << >>, r.result)
    /\ UNCHANGED <<layer_objects, proxy_frame>>

\* layers.clear(name): self._data.layers[index].clear()
ClearInPlace(name) == Edits("clear", name, None, clear(Current, name))

\* layers.get(name).set(index, binding)
ProxySet(name, index, binding) ==
    Edits("set", name, Some(index), proxy_set(Current, name, index, binding))

\* the basic layout, its two lists being two objects
InitProxy ==
    /\ layer_names = BasicLayout.layer_names
    /\ layers = BasicLayout.layers
    /\ layer_objects = <<1, 2>>
    /\ combos = << >>
    /\ has_combos = FALSE
    /\ hold_taps = {}
    /\ proxy = None
    /\ pipes = << >>
    /\ NoBuilder
    /\ NoJson
    /\ keyboard = <<"kb">>
    /\ config_parameters = << >>
    /\ config_builder = None
    /\ cells = << >>
    /\ last = NoCall

\* the layers set() is called on: the source of a copy and its target
Edited == {S_base, S_nav}

NextProxy ==
    \/ \E source_name \in Names, target_name \in Names :
          CopyObjects(source_name, target_name)
    \/ \E name \in Names : ClearInPlace(name)
    \/ \E name \in Edited, index \in 0..MaxIndex : ProxySet(name, index, B_kp_Z)

SpecProxy == InitProxy /\ [][NextProxy]_vars

\* the position of a name
At(list, name) == CHOOSE i \in 1..Len(list) : list[i] = name

\* C23: LayerProxy.set(i, binding) with i at or beyond the size of the layer does
\* not fail: afterwards get(i) is the binding, the layer ends at i, every new
\* position below i holds &none and the positions that existed hold what they held.
C23_SetExtendsWithNone ==
    [][(/\ last'.op = "set"
        /\ In(last'.name, layer_names)
        /\ last'.pos[1] >= Len(layers[At(layer_names, last'.name)])) =>
          LET i == last'.pos[1]
              old == layers[At(layer_names, last'.name)]
              new == layers'[At(layer_names', last'.name)]
          IN  /\ last'.result = OK
              /\ Len(new) = i + 1
              /\ new[i + 1] = B_kp_Z
              /\ \A k \in (Len(old) + 1)..i : new[k] = B_none
              /\ SubSeq(new, 1, Len(old)) = old]_vars

\* set(3, binding) on a layer of two bindings: one &none between them and it
C23_Witness ==
    /\ last.op = "set"
    /\ last.result = OK
    /\ last.name = S_base
    /\ layers[At(layer_names, S_base)] = <<B_kp_A, B_kp_B, B_none, B_kp_Z>>

\* C26: copy(src, dst) adds dst as a new layer whose bindings are those src has at
\* the time of the copy; it is a deep copy: a later edit of a layer, src or dst,
\* changes the bindings of no other layer.
C26_CopyIsDeep ==
    [][/\ (last'.op = "copy" /\ last'.result = OK) =>
             /\ layer_names' = Append(layer_names, last'.other)
             /\ layers' = Append(layers, layers[At(layer_names, last'.name)])
       /\ (last'.op \in {"clear", "set"} /\ last'.result = OK) =>
             \A i \in 1..Len(layer_names) :
                 layer_names[i] # last'.name => layers'[i] = layers[i]]_vars

\* base was copied to nav and then edited: nav still holds what base held
C26_Witness ==
    /\ last.op = "set"
    /\ last.result = OK
    /\ last.name = S_base
    /\ In(S_nav, layer_names)
    /\ layers[At(layer_names, S_nav)] = <<B_kp_A, B_kp_B>>
    /\ layers[At(layer_names, S_base)] # <<B_kp_A, B_kp_B>>

----------------------------------------------------------------------------
(* The split of a bindings cell-list into bindings.  A token is a str; the    *)
(* cell-list is the flat list of the tokens between < and >.                   *)

\* cell-lists of up to this many tokens are split
MaxCells == 4

\* a REFERENCE token: & and an identifier
is_reference(token) == Len(token) > 0 /\ token[1] = "&"

\* the walk over the tokens from the k-th on: bindings are the finished bindings,
\* current the binding being collected (None before the first reference)
RECURSIVE split_from(_, _, _, _)
split_from(tokens, k, bindings, current) ==
    IF k > Len(tokens)
    THEN IF current = None THEN bindings ELSE Append(bindings, current[1])
    ELSE IF is_reference(tokens[k])
    THEN split_from(tokens, k + 1,
                    IF current = None THEN bindings ELSE Append(bindings, current[1]),
                    Some(Binding(tokens[k], << >>)))
    ELSE IF current = None
    THEN \* a parameter with no reference before it: logged and left out
         split_from(tokens, k + 1, bindings, current)
    ELSE split_from(tokens, k + 1, bindings,
                    Some(Binding(current[1].value,
                                 Append(current[1].params, PStr(tokens[k])))))

\* the bindings of a cell-list
convert_ast_bindings(tokens) == split_from(tokens, 1, << >>, None)

T_hm     == <<"&", "h", "m">>
T_LCTRL  == <<"L", "C", "T", "R", "L">>
T_A      == <<"A">>

\* the tokens the cell-lists are made of
Tokens == {V_kp, T_hm, T_LCTRL, T_A}

CellLists == UNION { [1..n -> Tokens] : n \in 0..MaxCells }

\* _convert_ast_bindings on the cell-list
ConvertBindings ==
    /\ last.op = "none"
    /\ last' = [op |-> "convert", tokens |-> cells,
                bindings |-> convert_ast_bindings(cells)]
    /\ UNCHANGED <<layer_names, layers, combos, has_combos, hold_taps, proxy, pipes,
                   emit_vars, json_vars, more_vars>>

InitCells ==
    /\ layer_names = << >>
    /\ layers = << >>
    /\ combos = << >>
    /\ has_combos = FALSE
    /\ hold_taps = {}
    /\ proxy = None
    /\ pipes = << >>
    /\ NoBuilder
    /\ NoJson
    /\ keyboard = <<"kb">>
    /\ config_parameters = << >>
    /\ config_builder = None
    /\ cells \in CellLists
    /\ layer_objects = << >>
    /\ last = NoCall

NextCells == ConvertBindings

SpecCells == InitCells /\ [][NextCells]_vars

\* the positions of the reference tokens
References(tokens) == { k \in 1..Len(tokens) : is_reference(tokens[k]) }

\* the position of the n-th reference token
NthReference(tokens, n) ==
    CHOOSE k \in References(tokens) :
        Cardinality({ j \in References(tokens) : j <= k }) = n

\* where the run of the reference at k ends: before the next reference, or at the end
RunEnd(tokens, k) ==
    IF \E j \in References(tokens) : j > k
    THEN (CHOOSE j \in References(tokens) :
             j > k /\ \A i \in References(tokens) : i > k => j <= i) - 1
    ELSE Len(tokens)

\* C24: the split of a cell-list makes one binding for each reference token, in
\* order; the binding of a reference has the reference as its value and, as its
\* parameters in order, the non-reference tokens between it and the next reference
\* or the end of the list.
C24_OneBindingPerReference ==
    last.op = "convert" =>
        /\ Len(last.bindings) = Cardinality(References(last.tokens))
        /\ \A n \in 1..Len(last.bindings) :
              LET k == NthReference(last.tokens, n)
                  end == RunEnd(last.tokens, k)
              IN  /\ last.bindings[n].value = last.tokens[k]
                  /\ last.bindings[n].params =
                        [i \in 1..(end - k) |-> PStr(last.tokens[k + i])]

\* <&hm LCTRL A &kp>: &hm with two parameters, then &kp with none
C24_Witness ==
    /\ last.op = "convert"
    /\ last.tokens = <<T_hm, T_LCTRL, T_A, V_kp>>
    /\ last.bindings = <<Binding(T_hm, <<PStr(T_LCTRL), PStr(T_A)>>), Binding(V_kp, << >>)>>

====
